---- MODULE Spec2Model ----
(***************************************************************************)
(* Model of the OnlyOffice integration plugin (src/main.ts): the static    *)
(* file server, the key/file registry, the save-callback receiver, the     *)
(* document-open pipeline and the editor-config builder, the dirty flag    *)
(* and the unload of a view, the editor-event listeners, the start of the  *)
(* two local servers, the naming of new and saved-as files, the readiness  *)
(* polls of an open, and the guard of the system save-as fallback.         *)
(*                                                                         *)
(* Strings are sequences of atoms.  An atom is a TLA+ string standing for  *)
(* a fixed piece of the real string ("/" , ".", "%2F", "obsidian", ...).   *)
(***************************************************************************)
EXTENDS Integers, Sequences, FiniteSets, Bags, TLC

VARIABLES
    httpReq,     \* static server: the request being handled ([method, url])
    httpRes,     \* static server: the response written for httpReq
    fsFiles,     \* static server: the regular files on disk (absolute paths)
    settings,    \* plugin settings: [jwtSecret, useRequestToken]
    vault,       \* vault files: path -> [data, mtime]
    keyFileMap,  \* plugin.keyFileMap: document key -> file path
    tasks,       \* onLoadFile invocations, in the order they were started
    views,       \* per view: [webview, inDom, isDirty, forceSaves]
    cbReq,       \* callback server: the request received last
    inflight,    \* callback server: save handlers suspended in an await, by arrival
    sent,        \* callback server: the responses written by its latest step
    cbLog,       \* callback server: its latest step and the branch the step took
    overwrites,  \* per path: overwrites in a row that wrote the bytes it holds (0..2)
    event,       \* webview listeners: the editor event delivered and the view's context
    hostAction,  \* webview listeners: what the host did on that event
    net,         \* the ports on which a listen succeeds
    servers,     \* per local server being started: its start routine's state
    vaultNames,  \* the paths that exist in the vault while a name is chosen
    naming,      \* the routine choosing a file name: its locals and position
    polls,       \* per open: the failed HEAD attempts of its current readiness poll
    fallback,    \* per view's save-as: the guard flag and the fallback runs in flight
    unloads      \* per view: the number of opens begun when it was last unloaded

staticVars == <<httpReq, httpRes, fsFiles>>
openVars == <<settings, vault, keyFileMap, tasks, views>>
cbVars == <<cbReq, inflight, sent, cbLog, overwrites>>
evVars == <<event, hostAction>>
portVars == <<net, servers>>
nameVars == <<vaultNames, naming>>
sessVars == <<polls, fallback, unloads>>
pluginVars == <<evVars, portVars, nameVars, sessVars>>
vars == <<staticVars, openVars, cbVars, pluginVars>>


(***************************************************************************)
(* Generic string helpers                                                  *)
(***************************************************************************)
RECURSIVE SeqsUpTo(_, _)
SeqsUpTo(S, n) ==
    IF n = 0 THEN {<<>>}
    ELSE LET shorter == SeqsUpTo(S, n - 1)
         IN  shorter \cup {Append(s, a) : s \in {t \in shorter : Len(t) = n - 1}, a \in S}

Last(s) == s[Len(s)]
Front(s) == SubSeq(s, 1, Len(s) - 1)

IsPrefix(p, s) == Len(p) <= Len(s) /\ SubSeq(s, 1, Len(p)) = p

\* String.prototype.split(sep): the pieces between occurrences of the atom sep
RECURSIVE SplitOn(_, _)
SplitOn(s, sep) ==
    IF s = <<>> THEN << <<>> >>
    ELSE LET rest == SplitOn(Tail(s), sep)
         IN  IF Head(s) = sep
             THEN << <<>> >> \o rest
             ELSE << <<Head(s)>> \o Head(rest) >> \o Tail(rest)

(***************************************************************************)
(* Static file server (startInternalServer)                                *)
(***************************************************************************)
MaxUrlTail == 4

\* atoms a request path is built from, after the leading "/"
UrlAtoms == {"/", ".", "%2E", "%2F", "%", "?", "s", "n"}

\* the fixed routes of the server, with and without a query string
RouteUrls ==
    { <<"/">>, <<"/", "?", "n">>,
      <<"/", "editor.html">>, <<"/", "editor.html", "?", "n">>,
      <<"/", "embedded-editor.html">>,
      <<"/", "api", "/", "createNew">>, <<"/", "api", "/", "createNew", "?", "n">>,
      <<"/", "api", "/", "saveAs">>, <<"/", "api", "/", "saveAs", "?", "n">>,
      <<"/", "p", "/", "editor.html">>, <<"/", "e">>, <<"/", "p", "/", "e">>,
      <<"/", "p", "/", "n">>, <<"/", "p">>, <<"/", "m">> }

RequestUrls == {<<"/">> \o t : t \in SeqsUpTo(UrlAtoms, MaxUrlTail)} \cup RouteUrls

Methods == {"GET", "HEAD", "POST", "OPTIONS"}

\* The file system the server reads: absolute paths as sequences of segments.
\* The plugin is installed inside the vault (manifest.dir is vault-relative).
vaultPath == << <<"v">> >>
resolvedPluginPath == << <<"v">>, <<"p">> >>
editorHtmlPath == resolvedPluginPath \o << <<"editor.html">> >>
embeddedPath == resolvedPluginPath \o << <<"embedded-editor.html">> >>

FsLayouts ==
    { \* a vault note n, a plugin asset of the same name, plugin-only asset e,
      \* vault-only note m, and a file s outside the vault
      { << <<"v">>, <<"n">> >>, << <<"v">>, <<"p">>, <<"n">> >>,
        << <<"v">>, <<"p">>, <<"e">> >>, << <<"v">>, <<"m">> >>,
        << <<"s">> >>, editorHtmlPath, embeddedPath },
      \* the plugin pages are missing
      { << <<"v">>, <<"n">> >>, << <<"v">>, <<"p">>, <<"e">> >>, << <<"s">> >> } }

\* decodeURIComponent: a lone "%" (not followed by two hex digits that form
\* valid UTF-8) raises URIError; "%2E" and "%2F" decode to "." and "/".
DecodeAtom(a) ==
    CASE a = "%2E" -> "." [] a = "%2F" -> "/" [] a = "%41" -> "A" [] OTHER -> a
DecodeThrows(s) == \E i \in 1..Len(s) : s[i] = "%"
decodeURIComponent(s) == [i \in 1..Len(s) |-> DecodeAtom(s[i])]

\* reqPath.replace(/^\//, '')
StripLeadingSlash(s) == IF s # <<>> /\ Head(s) = "/" THEN Tail(s) ELSE s

\* path.normalize on the segments of an absolute path: "" and "." are dropped,
\* ".." removes the segment before it (and is dropped at the root).
RECURSIVE NormalizeSegs(_, _)
NormalizeSegs(stack, segs) ==
    IF segs = <<>> THEN stack
    ELSE LET seg == Head(segs)
             next == IF seg = <<>> \/ seg = <<".">> THEN stack
                     ELSE IF seg = <<".", ".">>
                          THEN (IF stack = <<>> THEN stack ELSE Front(stack))
                          ELSE Append(stack, seg)
         IN  NormalizeSegs(next, Tail(segs))

\* path.join(root, rel) for an absolute, normalized root (POSIX semantics)
PathJoin(root, rel) == NormalizeSegs(root, SplitOn(rel, "/"))

\* path.join keeps a trailing separator; stat of "file/" fails with ENOTDIR
TrailingSlash(rel) == rel # <<>> /\ Last(rel) = "/"

\* fs.existsSync(p) && fs.statSync(p).isFile()
IsRegularFile(fs, rel, p) == ~TrailingSlash(rel) /\ p \in fs

Response(status, kind, file) == [status |-> status, kind |-> kind, file |-> file]

\* the lookup with the two roots probed in the opposite order
ServeFilePluginFirst(fs, reqPath) ==
    LET rel == StripLeadingSlash(reqPath)
        filePath == PathJoin(vaultPath, rel)
        pluginFilePath == PathJoin(resolvedPluginPath, rel)
    IN  IF IsRegularFile(fs, rel, pluginFilePath)
        THEN Response(200, "file", pluginFilePath)
        ELSE IF IsRegularFile(fs, rel, filePath)
             THEN Response(200, "file", filePath)
             ELSE Response(404, "text", <<>>)

\* the final else-branch of the request handler: vault root, then plugin root
ServeFile(fs, reqPath) ==
    LET rel == StripLeadingSlash(reqPath)
        filePath == PathJoin(vaultPath, rel)
        pluginFilePath == PathJoin(resolvedPluginPath, rel)
    IN  IF IsRegularFile(fs, rel, filePath)
        THEN Response(200, "file", filePath)
        ELSE IF IsRegularFile(fs, rel, pluginFilePath)
             THEN Response(200, "file", pluginFilePath)
             ELSE Response(404, "text", <<>>)

\* the request handler passed to http.createServer
StaticHandler(fs, method, url) ==
    IF method = "OPTIONS" THEN Response(200, "empty", <<>>)
    ELSE LET first == Head(SplitOn(url, "?"))
             raw == IF first = <<>> THEN <<"/">> ELSE first
         IN  IF DecodeThrows(raw) THEN Response(500, "text", <<>>)
             ELSE LET reqPath == decodeURIComponent(raw)
                  IN  IF reqPath = <<"/", "api", "/", "createNew">>
                        THEN Response(200, "page", <<>>)
                      ELSE IF reqPath = <<"/", "api", "/", "saveAs">>
                        THEN Response(200, "page", <<>>)
                      ELSE IF reqPath = <<"/">> \/ reqPath = <<"/", "editor.html">>
                        THEN (IF editorHtmlPath \in fs
                              THEN Response(200, "file", editorHtmlPath)
                              ELSE Response(404, "text", <<>>))
                      ELSE IF reqPath = <<"/", "embedded-editor.html">>
                        THEN (IF embeddedPath \in fs
                              THEN Response(200, "file", embeddedPath)
                              ELSE Response(404, "text", <<>>))
                      ELSE ServeFile(fs, reqPath)

\* The server keeps no state between requests, so one request is drawn per
\* behaviour: Init holds the request that has arrived, the action handles it.
InitStatic ==
    /\ fsFiles \in FsLayouts
    /\ httpReq \in [method : Methods, url : RequestUrls]
    /\ httpRes = Response(0, "none", <<>>)
    /\ settings = [jwtSecret |-> <<>>, useRequestToken |-> TRUE]
    /\ vault = <<>>
    /\ keyFileMap = <<>>
    /\ tasks = <<>>
    /\ views = <<>>
    /\ cbReq = <<>>
    /\ inflight = EmptyBag
    /\ sent = <<>>
    /\ cbLog = <<>>
    /\ overwrites = <<>>
    /\ event = <<>>
    /\ hostAction = <<>>
    /\ net = {}
    /\ servers = <<>>
    /\ vaultNames = {}
    /\ naming = <<>>
    /\ polls = <<>>
    /\ fallback = <<>>
    /\ unloads = <<>>

StaticRequest ==
    /\ httpRes.kind = "none"
    /\ httpRes' = StaticHandler(fsFiles, httpReq.method, httpReq.url)
    /\ UNCHANGED <<httpReq, fsFiles, openVars, cbVars, pluginVars>>

\* the decoded path of the request is one of the two pages read with
\* fs.readFile
IsPageRoute(url) ==
    LET first == Head(SplitOn(url, "?"))
        raw == IF first = <<>> THEN <<"/">> ELSE first
    IN  /\ ~DecodeThrows(raw)
        /\ decodeURIComponent(raw) \in {<<"/">>, <<"/", "editor.html">>,
                                        <<"/", "embedded-editor.html">>}

\* the read of the file to serve ended. A page is read with fs.readFile,
\* whose callback answers 500 on an error; any other file is piped from
\* fs.createReadStream after the 200 head is written, and the stream has no
\* 'error' listener, so a failed read leaves the response unfinished
FileRead(ok) ==
    /\ httpRes.status = 200 /\ httpRes.kind = "file"
    /\ httpRes' = IF ok THEN Response(200, "sent", httpRes.file)
                  ELSE IF IsPageRoute(httpReq.url) THEN Response(500, "text", <<>>)
                  ELSE Response(200, "aborted", httpRes.file)
    /\ UNCHANGED <<httpReq, fsFiles, openVars, cbVars, pluginVars>>

NextStatic ==
    \/ StaticRequest
    \/ \E ok \in BOOLEAN : FileRead(ok)

SpecStatic == InitStatic /\ [][NextStatic]_vars

Inside(root, p) == IsPrefix(root, p)

\* C1: the static server never answers 200 with the contents of a file that
\* lies outside both the vault root and the plugin root.
C1_TraversalRejected ==
    (httpRes.status = 200 /\ httpRes.kind = "file")
        => (Inside(vaultPath, httpRes.file) \/ Inside(resolvedPluginPath, httpRes.file))

(***************************************************************************)
(* Characters, numbers and the document key (onLoadFile, lines 274-281)    *)
(***************************************************************************)
Digits == <<"0", "1", "2", "3", "4", "5", "6", "7", "8", "9">>
Base36Atoms == Digits \o <<"a", "b", "c", "d", "e", "f", "g", "h", "i", "j", "k", "l", "m",
                           "n", "o", "p", "q", "r", "s", "t", "u", "v", "w", "x", "y", "z">>

Range(f) == {f[i] : i \in DOMAIN f}
IsDigit(a) == a \in Range(Digits)
\* atoms made only of characters in [a-z0-9]
IsLowerAlnum(a) == a \in Range(Base36Atoms) \cup {"oo", "obsidian", "docx", "txt"}

\* String.prototype.charCodeAt for every character of an atom
CharCodes(a) ==
    CASE a = "A" -> <<65>> [] a = "B" -> <<66>> [] a = "a" -> <<97>>
      [] a = "n" -> <<110>> [] a = "x" -> <<120>> [] a = "y" -> <<121>>
      [] a = "." -> <<46>> [] a = "/" -> <<47>> [] a = "|" -> <<124>>
      [] a = "_" -> <<95>> [] a = " " -> <<32>> [] a = "é" -> <<233>>
      [] a = "docx" -> <<100, 111, 99, 120>>
      [] a = "txt" -> <<116, 120, 116>>
      [] a = "0" -> <<48>> [] a = "1" -> <<49>> [] a = "2" -> <<50>>
      [] a = "3" -> <<51>> [] a = "4" -> <<52>> [] a = "5" -> <<53>>
      [] a = "6" -> <<54>> [] a = "7" -> <<55>> [] a = "8" -> <<56>>
      [] a = "9" -> <<57>>

RECURSIVE StringCodes(_)
StringCodes(s) == IF s = <<>> THEN <<>> ELSE CharCodes(Head(s)) \o StringCodes(Tail(s))

\* Number.prototype.toString() of a non-negative integer
RECURSIVE ToDecimal(_)
ToDecimal(n) == IF n < 10 THEN <<Digits[n + 1]>>
                ELSE ToDecimal(n \div 10) \o <<Digits[(n % 10) + 1]>>

\* hash = (hash*31 + c) >>> 0 on a 32-bit value kept as <<high 16 bits, low 16 bits>>
HashStep(h, c) ==
    LET lo == h[2] * 31 + c
        hi == h[1] * 31 + (lo \div 65536)
    IN  <<hi % 65536, lo % 65536>>

RECURSIVE HashCodes(_, _)
HashCodes(h, codes) ==
    IF codes = <<>> THEN h ELSE HashCodes(HashStep(h, Head(codes)), Tail(codes))

\* hash.toString(36)
RECURSIVE ToBase36(_)
ToBase36(h) ==
    LET mid == (h[1] % 36) * 65536 + h[2]
        quot == <<h[1] \div 36, mid \div 36>>
        digit == <<Base36Atoms[(mid % 36) + 1]>>
    IN  IF quot = <<0, 0>> THEN digit ELSE ToBase36(quot) \o digit

\* 'oo_' + hash.toString(36) + '_' + randomId, hash over path|mtime|randomId
UniqueKey(path, mtime, randomId) ==
    LET baseForKey == path \o <<"|">> \o ToDecimal(mtime) \o <<"|">> \o randomId
        hash == HashCodes(<<0, 0>>, StringCodes(baseForKey))
    IN  <<"oo", "_">> \o ToBase36(hash) \o <<"_">> \o randomId

\* outcomes of Math.random().toString(36).slice(2,10) in the model
RandomIds == {<<"x", "1">>, <<"y", "2">>}

(***************************************************************************)
(* Opening a document (onLoadFile / loadDirectOnlyOfficeInterface)         *)
(***************************************************************************)
MaxOpens == 2

Views == {"v1", "v2"}

PathA == <<"A", "a", ".", "docx">>
PathB == <<"B", "B", ".", "docx">>

\* keyFileMap is a function on the registered keys
Registered(map, key) == key \in DOMAIN map

\* an open that leaves the registry as it is
RegisterNothing(map, key, path) == map
Register(map, key, path) ==
    [k \in (DOMAIN map) \cup {key} |-> IF k = key THEN path ELSE map[k]]

\* file.extension
Extension(path) == Last(path)
Supported(path) == Extension(path) \in {"docx", "xlsx", "pptx", "pdf"}

\* jwtSecret && jwtSecret.trim() !== ''
SecretConfigured(st) == \E i \in 1..Len(st.jwtSecret) : st.jwtSecret[i] # " "

SetTask(t, field, value) == [tasks EXCEPT ![t][field] = value]

\* ---- the editor config (loadDirectOnlyOfficeInterface) ----
\* encodeURIComponent of a path segment: unreserved characters stay, a
\* non-ASCII character becomes the escapes of its UTF-8 bytes
EncodeAtom(a) == IF a = "é" THEN "%C3%A9" ELSE a
encodeURIComponent(s) == [i \in 1..Len(s) |-> EncodeAtom(s[i])]

\* file.name: the part of the path after the last "/"
FileName(path) == Last(SplitOn(path, "/"))

\* ext === 'xlsx' ? 'cell' : ext === 'pptx' ? 'slide' : 'word'
DocumentType(ext) == IF ext = "xlsx" THEN "cell" ELSE IF ext = "pptx" THEN "slide" ELSE "word"

\* `${dockerHostBaseUrl}/${relPath}` with every segment of the path encoded
DockerFileUrl(path) == <<"http://docker:port", "/">> \o encodeURIComponent(path)
CallbackUrl == <<"http://docker:cbport", "/", "callback">>
CreateUrl(documentType) ==
    <<"http://127.0.0.1:port", "/", "api/createNew", "?", "fileType=", documentType>>
SaveAsUrl == <<"http://127.0.0.1:port", "/", "api/saveAs">>

\* the constant members of editorConfig (mode, lang, user, customization,
\* coEditing) and of document (permissions) are carried as one value each
BaseConfig(path, uniqueKey) ==
    [documentType |-> DocumentType(Extension(path)),
     document |-> [fileType |-> <<Extension(path)>>,
                   key |-> uniqueKey,
                   title |-> FileName(path),
                   url |-> DockerFileUrl(path),
                   permissions |-> "edit"],
     editorConfig |-> [mode |-> "edit",
                       customization |-> "forcesave",
                       callbackUrl |-> CallbackUrl,
                       createUrl |-> CreateUrl(DocumentType(Extension(path))),
                       saveAsUrl |-> SaveAsUrl]]

\* new SignJWT({key, ts}).sign(secret): a compact JWT, made of unreserved
\* characters only
RequestToken(uniqueKey) == <<"jwt", ".">> \o uniqueKey

\* an append that always starts a query string
AppendTokenQuestion(u, requestToken) ==
    u \o <<"?", "token=">> \o encodeURIComponent(requestToken)

\* u + (u.includes('?') ? '&' : '?') + 'token=' + encodeURIComponent(requestToken)
AppendToken(u, requestToken) ==
    u \o <<IF \E i \in 1..Len(u) : u[i] = "?" THEN "&" ELSE "?", "token=">>
      \o encodeURIComponent(requestToken)

\* the four URLs of the config with the request token appended (lines 489-493)
WithRequestToken(cfg, requestToken) ==
    [cfg EXCEPT !.document.url = AppendToken(@, requestToken),
                !.editorConfig.callbackUrl = AppendToken(@, requestToken),
                !.editorConfig.createUrl = AppendToken(@, requestToken),
                !.editorConfig.saveAsUrl = AppendToken(@, requestToken)]

\* { document: baseConfig.document, editorConfig: {...baseConfig.editorConfig}, iat }
Payload(cfg) == [document |-> cfg.document, editorConfig |-> cfg.editorConfig, iat |-> "now"]

\* new SignJWT(payload).sign(secret): the token carries the payload
SignJWT(payload) == [claims |-> payload]

\* atob(Buffer.from(text).toString('base64')): every byte of the UTF-8 encoding
\* comes back as one character
AtobAtom(a) == IF a = "é" THEN "Ã©" ELSE a
AtobUtf8(s) == [i \in 1..Len(s) |-> AtobAtom(s[i])]

WithField(r, f, v) == [g \in (DOMAIN r) \cup {f} |-> IF g = f THEN v ELSE r[g]]

\* JSON.parse(atob(__BASE64)) of JSON.stringify(baseConfig)
ParsedConfig(cfg) ==
    [documentType |-> cfg.documentType,
     document |-> [fileType |-> AtobUtf8(cfg.document.fileType),
                   key |-> AtobUtf8(cfg.document.key),
                   title |-> AtobUtf8(cfg.document.title),
                   url |-> AtobUtf8(cfg.document.url),
                   permissions |-> cfg.document.permissions],
     editorConfig |-> [mode |-> cfg.editorConfig.mode,
                       customization |-> cfg.editorConfig.customization,
                       callbackUrl |-> AtobUtf8(cfg.editorConfig.callbackUrl),
                       createUrl |-> AtobUtf8(cfg.editorConfig.createUrl),
                       saveAsUrl |-> AtobUtf8(cfg.editorConfig.saveAsUrl)]]

\* the init script: parse the config, set config.token, config.events and
\* config.editorConfig.events, and hand the config to DocsAPI.DocEditor
EditorConfig(cfg, signedToken) ==
    LET config == ParsedConfig(cfg)
        withToken == IF signedToken # <<>> THEN WithField(config, "token", signedToken)
                     ELSE config
        withEvents == WithField(withToken, "events", "handlers")
    IN  [withEvents EXCEPT !.editorConfig = WithField(@, "events", "handlers")]

\* onLoadFile up to its first await: drop the old webview, reset the dirty flag
OpenStart(v, path) ==
    /\ Len(tasks) < MaxOpens
    /\ path \in DOMAIN vault
    /\ tasks' = Append(tasks, [view |-> v, path |-> path, pc |-> "pollPage",
                               key |-> <<>>, loaded |-> FALSE, baseConfig |-> <<>>,
                               payload |-> <<>>, signedToken |-> <<>>, config |-> <<>>,
                               error |-> ""])
    /\ views' = [views EXCEPT ![v] =
                    [webview |-> 0,
                     inDom |-> IF @.webview # 0 /\ @.inDom = @.webview THEN 0 ELSE @.inDom,
                     isDirty |-> FALSE,
                     forceSaves |-> @.forceSaves]]
    /\ UNCHANGED <<settings, vault, keyFileMap, cbVars, staticVars, pluginVars>>

\* the HEAD request for editor.html succeeded
PollPageOk(t) ==
    /\ tasks[t].pc = "pollPage"
    /\ tasks' = SetTask(t, "pc", "pollFile")
    /\ UNCHANGED <<settings, vault, keyFileMap, views, cbVars, staticVars, pluginVars>>

\* where loadDirectOnlyOfficeInterface first suspends, given the settings
AfterWebview(st) ==
    IF ~SecretConfigured(st) THEN "ready"
    ELSE IF st.useRequestToken THEN "signReq" ELSE "signCfg"

\* the HEAD request for the file succeeded: the key is generated and registered,
\* then the webview is created and the base config built; without a request
\* token to wait for, the payload to sign is built at once
PollFileOk(t, randomId) ==
    /\ tasks[t].pc = "pollFile"
    /\ LET path == tasks[t].path
           v == tasks[t].view
           uniqueKey == UniqueKey(path, vault[path].mtime, randomId)
       IN  /\ keyFileMap' = Register(keyFileMap, uniqueKey, path)
           /\ IF Supported(path)
              THEN /\ tasks' = [tasks EXCEPT
                                  ![t].key = uniqueKey,
                                  ![t].pc = AfterWebview(settings),
                                  ![t].baseConfig = BaseConfig(path, uniqueKey),
                                  ![t].payload =
                                      IF AfterWebview(settings) = "signCfg"
                                      THEN Payload(BaseConfig(path, uniqueKey)) ELSE <<>>]
                   /\ views' = [views EXCEPT ![v].webview = t, ![v].inDom = t]
              ELSE /\ tasks' = [tasks EXCEPT ![t].key = uniqueKey, ![t].pc = "failed",
                                             ![t].error = "Unsupported file type"]
                   /\ views' = [views EXCEPT ![v].inDom = 0]
    /\ UNCHANGED <<settings, vault, cbVars, staticVars, pluginVars>>

\* catch (err) { this.showEditorError(container, ...); return; }
SignFailed(t) ==
    [tasks EXCEPT ![t].pc = "failed", ![t].error = "Failed to initialize editor"]

\* the request token was signed (or signing threw): it is appended to the
\* URLs, then the payload is built and its signing started
SignReqDone(t, ok) ==
    /\ tasks[t].pc = "signReq"
    /\ tasks' =
          IF ok
          THEN LET cfg == WithRequestToken(tasks[t].baseConfig, RequestToken(tasks[t].key))
               IN  [tasks EXCEPT ![t].pc = "signCfg", ![t].baseConfig = cfg,
                                 ![t].payload = Payload(cfg)]
          ELSE SignFailed(t)
    /\ views' = IF tasks'[t].pc = "failed"
                THEN [views EXCEPT ![tasks[t].view].inDom = 0] ELSE views
    /\ UNCHANGED <<settings, vault, keyFileMap, cbVars, staticVars, pluginVars>>

\* a signing call whose failure is logged and passed over
SignedOrNot(t, ok) ==
    [tasks EXCEPT ![t].pc = "ready",
                  ![t].signedToken = IF ok THEN SignJWT(tasks[t].payload) ELSE <<>>]

\* the outcome of signing the config payload
SignedOrFailed(t, ok) ==
    IF ok
    THEN [tasks EXCEPT ![t].pc = "ready", ![t].signedToken = SignJWT(tasks[t].payload)]
    ELSE SignFailed(t)

\* the config payload was signed (or signing threw); on success the webview
\* listeners are attached
SignCfgDone(t, ok) ==
    /\ tasks[t].pc = "signCfg"
    /\ tasks' = SignedOrFailed(t, ok)
    /\ views' = IF tasks'[t].pc = "failed"
                THEN [views EXCEPT ![tasks[t].view].inDom = 0] ELSE views
    /\ UNCHANGED <<settings, vault, keyFileMap, cbVars, staticVars, pluginVars>>

\* did-finish-load of the task's webview: the init script with the config is
\* executed if the listener is attached, otherwise the event is lost
DidFinishLoad(t) ==
    /\ views[tasks[t].view].inDom = t
    /\ ~tasks[t].loaded
    /\ tasks' = IF tasks[t].pc = "ready"
                THEN [tasks EXCEPT ![t].loaded = TRUE, ![t].pc = "delivered",
                                   ![t].config = EditorConfig(tasks[t].baseConfig,
                                                              tasks[t].signedToken)]
                ELSE SetTask(t, "loaded", TRUE)
    /\ UNCHANGED <<settings, vault, keyFileMap, views, cbVars, staticVars, pluginVars>>

\* the editor reported its document state (onDocumentStateChange carries the
\* flag, onDocumentContentChanged always reports true) over either transport;
\* the webview's listener stores it in the view
DirtyState(t, isDirty) ==
    /\ tasks[t].pc = "delivered"
    /\ views[tasks[t].view].inDom = t
    /\ views[tasks[t].view].isDirty # isDirty
    /\ views' = [views EXCEPT ![tasks[t].view].isDirty = isDirty]
    /\ UNCHANGED <<settings, vault, keyFileMap, tasks, cbVars, staticVars, pluginVars>>

\* a view that saves on every close
ForceSaveAlways(view) == IF view.webview # 0 THEN 1 ELSE 0

\* the c:forcesave commands onUnloadFile sends to the webview it still holds
ForceSave(view) == IF view.isDirty /\ view.webview # 0 THEN 1 ELSE 0

\* a close that drops the closed view's keys from the registry
ForgetKeys(map, keys) == [k \in DOMAIN map \ keys |-> map[k]]

\* a close that empties the registry
ClearKeys(map, keys) == <<>>

\* what onUnloadFile leaves of the registry: it does not touch it
KeepKeys(map, keys) == map

\* onUnloadFile: ask a dirty editor to save, then release the webview and
\* empty the content element; nothing is awaited
UnloadFile(v) ==
    /\ \E t \in DOMAIN tasks : tasks[t].view = v
    /\ views[v].webview # 0 \/ views[v].inDom # 0
    /\ views' = [views EXCEPT ![v].webview = 0, ![v].inDom = 0,
                              ![v].forceSaves = @ + ForceSave(views[v])]
    /\ keyFileMap' = KeepKeys(keyFileMap,
                               {tasks[t].key : t \in {u \in DOMAIN tasks : tasks[u].view = v}})
    /\ UNCHANGED <<settings, vault, tasks, cbVars, staticVars, pluginVars>>

\* the steps of an open when no JWT secret is configured
OpenUnsigned ==
    \/ \E v \in DOMAIN views, path \in DOMAIN vault : OpenStart(v, path)
    \/ \E t \in DOMAIN tasks : PollPageOk(t)
    \/ \E t \in DOMAIN tasks, randomId \in RandomIds : PollFileOk(t, randomId)
    \/ \E t \in DOMAIN tasks : DidFinishLoad(t)
    \/ \E v \in DOMAIN views : UnloadFile(v)

\* the completions of the two signing calls
SignActions ==
    \/ \E t \in DOMAIN tasks, ok \in BOOLEAN : SignReqDone(t, ok)
    \/ \E t \in DOMAIN tasks, ok \in BOOLEAN : SignCfgDone(t, ok)

OpenActions == OpenUnsigned \/ SignActions

InitOpen ==
    /\ settings = [jwtSecret |-> <<>>, useRequestToken |-> TRUE]
    /\ vault = [p \in {PathA, PathB} |-> [data |-> "orig", mtime |-> 1]]
    /\ keyFileMap = <<>>
    /\ tasks = <<>>
    /\ views = [v \in Views |-> [webview |-> 0, inDom |-> 0, isDirty |-> FALSE, forceSaves |-> 0]]

(***************************************************************************)
(* Callback receiver (startCallbackServer)                                 *)
(***************************************************************************)
MaxInflight == 2
MaxMtime == 2

\* data.status as it arrives: a JSON number, a string, or absent
NumStatus(n) == [t |-> "num", n |-> n, s |-> <<>>]
StrStatus(s) == [t |-> "str", n |-> 0, s |-> s]
NoStatus == [t |-> "missing", n |-> 0, s |-> <<>>]

\* the value of the leading run of decimal digits of s, after `acc`
RECURSIVE DigitsValue(_, _)
DigitsValue(acc, s) ==
    IF s = <<>> \/ ~IsDigit(Head(s)) THEN acc
    ELSE DigitsValue(acc * 10 + (CHOOSE d \in 0..9 : Digits[d + 1] = Head(s)), Tail(s))

RECURSIVE SkipSpaces(_)
SkipSpaces(s) == IF s # <<>> /\ Head(s) = " " THEN SkipSpaces(Tail(s)) ELSE s

\* parseInt(data.status) || 0 (strings without sign or radix prefix)
ParseStatus(st) ==
    IF st.t = "num" THEN st.n
    ELSE IF st.t = "missing" THEN 0
    ELSE LET body == SkipSpaces(st.s)
         IN  IF body = <<>> \/ ~IsDigit(Head(body)) THEN 0 ELSE DigitsValue(0, body)

\* a test that also lets status 4 (closed without changes) through
SaveStatusWith4(status) == status = 2 \/ status = 6 \/ status = 0 \/ status = 4

\* status === 2 || status === 6 || status === 0
SaveStatus(status) == status = 2 \/ status = 6 \/ status = 0

\* data.url: the document it names on the document server and its key parameter
Url(doc, key) == [doc |-> doc, key |-> key]
NoUrl == Url("", <<>>)
\* new URL(data.url) throws for a string that is no absolute URL
UrlParses(u) == u.doc # "bad"
\* the bytes the document server holds for a document; for d0 it answers 200
\* with an empty body
UrlBytes(doc) == IF doc = "d1" THEN "B1" ELSE IF doc = "d0" THEN "" ELSE "B2"

\* /^obsidian_(.+?)_\d+_[a-z0-9]+$/ : the captured group, or <<>> without a match.
\* The tail after the last "_" is [a-z0-9]+ and the piece before it \d+, so the
\* two last underscores fix the group.
LegacyGroup(key) ==
    IF ~IsPrefix(<<"obsidian", "_">>, key) THEN <<>>
    ELSE LET rest == SubSeq(key, 3, Len(key))
             us == {i \in 1..Len(rest) : rest[i] = "_"}
         IN  IF Cardinality(us) < 2 THEN <<>>
             ELSE LET j == CHOOSE i \in us : \A k \in us : k <= i
                      i == CHOOSE i \in us \ {j} : \A k \in us \ {j} : k <= i
                      tail == SubSeq(rest, j + 1, Len(rest))
                      num == SubSeq(rest, i + 1, j - 1)
                  IN  IF /\ i > 1
                         /\ tail # <<>> /\ \A k \in 1..Len(tail) : IsLowerAlnum(tail[k])
                         /\ num # <<>> /\ \A k \in 1..Len(num) : IsDigit(num[k])
                      THEN SubSeq(rest, 1, i - 1)
                      ELSE <<>>

\* Object.fromEntries(new URLSearchParams(body)): values are percent-decoded,
\* a malformed escape is kept as it is
FormValue(s) == decodeURIComponent(s)

\* the body is parsed as a form only if it contains 'url=' and '&'
FormParsable(body) ==
    body.url # NoUrl /\ (body.status # NoStatus \/ body.key # <<>>)

\* the parsed data object of a body that JSON.parse or the form parser accepts
DataOf(body) ==
    IF body.fmt = "form"
    THEN [status |-> body.status, url |-> body.url, key |-> FormValue(body.key)]
    ELSE IF body.fmt = "scalar"
         THEN [status |-> NoStatus, url |-> NoUrl, key |-> <<>>]
         ELSE [status |-> body.status, url |-> body.url, key |-> body.key]

\* let key = data.key; if (!key && data.url) key = new URL(data.url).searchParams.get('key')
KeyOf(data) ==
    IF data.key # <<>> THEN data.key
    ELSE IF UrlParses(data.url) THEN data.url.key ELSE <<>>

Decision(kind, path, why) == [kind |-> kind, path |-> path, why |-> why]

\* ResolveAndCheck without the test that the resolved path names a vault file
ResolveUnchecked(map, vlt, key) ==
    IF Registered(map, key)
    THEN Decision("download", map[key], "Resolved file path from map")
    ELSE LET group == LegacyGroup(key)
         IN  IF group = <<>>
               THEN Decision("ack", <<>>, "Could not resolve file path for key")
             ELSE IF DecodeThrows(group)
               THEN Decision("throw", <<>>, "URIError")
             ELSE Decision("download", decodeURIComponent(group), "Extracted legacy file path")

\* the save branch (lines 1681-1722) up to the download, for a key that is set;
\* `why` names the line logged on the branch taken
ResolveAndCheck(map, vlt, key) ==
    IF Registered(map, key)
    THEN (IF map[key] \in DOMAIN vlt
          THEN Decision("download", map[key], "Resolved file path from map")
          ELSE Decision("ack", <<>>, "File not found in vault"))
    ELSE LET group == LegacyGroup(key)
         IN  IF group = <<>>
               THEN Decision("ack", <<>>, "Could not resolve file path for key")
             ELSE IF DecodeThrows(group)
               THEN Decision("throw", <<>>, "URIError")
             ELSE IF decodeURIComponent(group) \in DOMAIN vlt
               THEN Decision("download", decodeURIComponent(group), "Extracted legacy file path")
               ELSE Decision("ack", <<>>, "File not found in vault")

\* the body of the try block of the 'end' handler, up to its first await
SaveDecision(map, vlt, body) ==
    IF body.fmt = "garbage" \/ (body.fmt = "form" /\ ~FormParsable(body))
    THEN Decision("ack", <<>>, "Failed to parse JSON")
    ELSE IF body.fmt = "null" THEN Decision("throw", <<>>, "TypeError")
    ELSE LET data == DataOf(body)
             status == ParseStatus(data.status)
         IN  IF SaveStatus(status) /\ data.url # NoUrl
             THEN (IF KeyOf(data) # <<>>
                   THEN ResolveAndCheck(map, vlt, KeyOf(data))
                   ELSE Decision("ack", <<>>, "No key found in callback data"))
             ELSE Decision("ack", <<>>, "Received non-save status or missing URL")

\* the 'end' handler without its catch block
TryCatchNone(d) == d

\* try { ... } catch (err) { res.end({error: 0}) } around the 'end' handler
TryCatch(d) ==
    IF d.kind = "throw" THEN Decision("ack", <<>>, "Error processing callback") ELSE d

\* the callback server's request handler up to its first await
CallbackDecision(map, vlt, req) ==
    IF req.method = "OPTIONS" THEN Decision("empty", <<>>, "preflight")
    ELSE IF req.method = "POST" /\ Head(SplitOn(req.url, "?")) = <<"/", "callback">>
         THEN TryCatch(SaveDecision(map, vlt, req.body))
         ELSE Decision("info", <<>>, "callback server is running")

CbResponse(status, body) == [status |-> status, body |-> body]
Ack == CbResponse(200, "error0")
AckInfo == CbResponse(200, "error0info")
EmptyOk == CbResponse(200, "empty")

\* what the handler has written to res when it ends or suspends
ResponseFor(kind) ==
    IF kind = "empty" THEN <<EmptyOk>>
    ELSE IF kind = "info" THEN <<AckInfo>>
    ELSE IF kind = "ack" THEN <<Ack>>
    ELSE <<>>

\* the suspended handlers are a bag: what each one holds while it awaits
Suspended(path, url, pc) == [path |-> path, url |-> url, pc |-> pc]
Suspend(bag, c) == bag (+) SetToBag({c})
Resume(bag, c) == bag (-) SetToBag({c})

Log(step, why) == [step |-> step, why |-> why]

\* a request arrives and its handler runs until it ends or suspends in requestUrl
CallbackReceive(req) ==
    LET d == CallbackDecision(keyFileMap, vault, req)
    IN  /\ d.kind = "download" => BagCardinality(inflight) < MaxInflight
        /\ cbReq' = req
        /\ cbLog' = Log("receive", d.why)
        /\ sent' = ResponseFor(d.kind)
        /\ inflight' = IF d.kind = "download"
                       THEN Suspend(inflight, Suspended(d.path, req.body.url, "download"))
                       ELSE inflight
        /\ UNCHANGED <<overwrites, openVars, staticVars, pluginVars>>

DownloadOutcomes(u) == IF UrlParses(u) THEN {"ok", "non200", "throw"} ELSE {"throw"}

\* a handler that acknowledges as soon as the download has settled
RespondedAtDownload(outcome) == <<Ack>>

\* what the handler has written to the response when requestUrl has settled:
\* nothing while it awaits modifyBinary, the acknowledgement otherwise
RespondedAfterDownload(outcome) == IF outcome = "ok" THEN <<>> ELSE <<Ack>>

\* requestUrl settles: on 200 with a body modifyBinary is started, otherwise the
\* failure is logged and the callback acknowledged
CallbackDownloaded(c, outcome) ==
    /\ c.pc = "download"
    /\ outcome \in DownloadOutcomes(c.url)
    /\ sent' = RespondedAfterDownload(outcome)
    /\ IF outcome = "ok"
       THEN /\ inflight' = Suspend(Resume(inflight, c), Suspended(c.path, c.url, "write"))
            /\ cbLog' = Log("downloaded", "modifyBinary")
       ELSE /\ inflight' = Resume(inflight, c)
            /\ cbLog' = Log("downloaded", IF outcome = "throw"
                                          THEN "Error downloading file"
                                          ELSE "Failed to download file")
    /\ UNCHANGED <<cbReq, overwrites, openVars, staticVars, pluginVars>>

\* a write that replaces every file of the vault
ModifyBinaryAll(vlt, path, bytes, mtime) ==
    [q \in DOMAIN vlt |-> [data |-> bytes, mtime |-> mtime]]

\* a write that only touches the file's mtime
ModifyBinaryTouch(vlt, path, bytes, mtime) ==
    [vlt EXCEPT ![path] = [data |-> vlt[path].data, mtime |-> mtime]]

\* modifyBinary(file, response.arrayBuffer)
ModifyBinary(vlt, path, bytes, mtime) ==
    [vlt EXCEPT ![path] = [data |-> bytes, mtime |-> mtime]]

\* modifyBinary completes: the file holds the downloaded bytes, then the
\* callback is acknowledged
CallbackWritten(c, mtime) ==
    /\ c.pc = "write"
    /\ LET bytes == UrlBytes(c.url.doc)
       IN  /\ mtime >= vault[c.path].mtime
           /\ vault' = ModifyBinary(vault, c.path, bytes, mtime)
           /\ overwrites' = [overwrites EXCEPT ![c.path] =
                                IF @ > 0 /\ vault[c.path].data = bytes THEN 2 ELSE 1]
    /\ inflight' = Resume(inflight, c)
    /\ sent' = <<Ack>>
    /\ cbLog' = Log("written", "Document saved successfully")
    /\ UNCHANGED <<cbReq, settings, keyFileMap, tasks, views, staticVars, pluginVars>>

\* modifyBinary rejects: the inner catch logs it, the file is as it was, and
\* the callback is acknowledged
CallbackWriteFailed(c) ==
    /\ c.pc = "write"
    /\ inflight' = Resume(inflight, c)
    /\ sent' = <<Ack>>
    /\ cbLog' = Log("written", "Error downloading file")
    /\ UNCHANGED <<cbReq, overwrites, openVars, staticVars, pluginVars>>

CallbackSteps ==
    \/ \E c \in BagToSet(inflight), outcome \in {"ok", "non200", "throw"} :
           CallbackDownloaded(c, outcome)
    \/ \E c \in BagToSet(inflight), mtime \in 1..MaxMtime : CallbackWritten(c, mtime)
    \/ \E c \in BagToSet(inflight) : CallbackWriteFailed(c)

\* ---- requests the model sends to the callback server ----
RegisteredKeyA == UniqueKey(PathA, 1, <<"x", "1">>)
UnregisteredKey == UniqueKey(PathB, 1, <<"y", "2">>)
\* obsidian_%41a.docx_17_x1 : the legacy form of Aa.docx
LegacyKeyA == <<"obsidian", "_", "%41", "a", ".", "docx", "_", "1", "7", "_", "x", "1">>
\* legacy keys of a file that does not exist, with a malformed escape, and
\* without the timestamp part
LegacyKeyMissing == <<"obsidian", "_", "n", ".", "docx", "_", "1", "_", "x">>
LegacyKeyBad == <<"obsidian", "_", "%", "_", "1", "_", "x">>
LegacyKeyShort == <<"obsidian", "_", "A", "_", "x">>

Body(fmt, status, url, key) == [fmt |-> fmt, status |-> status, url |-> url, key |-> key]
Request(method, url, body) == [method |-> method, url |-> url, body |-> body]
NoBody == Body("garbage", NoStatus, NoUrl, <<>>)
CallbackPath == <<"/", "callback">>

StatusInputs ==
    {NumStatus(n) : n \in {0, 1, 2, 3, 4, 6, 7}}
        \cup {StrStatus(s) : s \in {<<"2">>, <<"6">>, <<"4">>, <<"x">>, <<"6", "x">>, <<" ", "2">>}}
        \cup {NoStatus}

\* every status, with a url and a key that resolves
StatusRequests ==
    {Request("POST", CallbackPath, Body("json", st, Url("d1", <<>>), RegisteredKeyA)) :
        st \in StatusInputs}
    \cup {Request("POST", CallbackPath, Body("form", st, Url("d1", <<>>), RegisteredKeyA)) :
            st \in {x \in StatusInputs : x.t # "num"}}

KeyInputs ==
    {<<>>, RegisteredKeyA, UnregisteredKey, LegacyKeyA, LegacyKeyMissing, LegacyKeyBad,
     LegacyKeyShort, <<"z", "z">>}

\* save callbacks with every kind of key, body and url; other paths and methods
SaveRequests ==
    {Request("POST", CallbackPath, Body(fmt, NumStatus(2), Url("d1", <<>>), key)) :
        fmt \in {"json"}, key \in KeyInputs}
    \cup {Request("POST", CallbackPath, Body("form", StrStatus(<<"6">>), Url("d1", <<>>), key)) :
            key \in {<<>>, RegisteredKeyA, LegacyKeyA}}
    \cup {Request("POST", CallbackPath, Body("json", NumStatus(6), u, RegisteredKeyA)) :
            u \in {Url("d2", <<>>), Url("bad", <<>>), NoUrl}}
    \cup {Request("POST", CallbackPath, Body("json", NumStatus(2), u, <<>>)) :
            u \in {Url("d1", RegisteredKeyA), Url("d1", <<"z", "z">>), Url("bad", <<>>)}}
    \cup {Request("POST", CallbackPath, Body(fmt, NoStatus, NoUrl, <<>>)) :
            fmt \in {"garbage", "null", "scalar", "form"}}
    \cup {Request("POST", CallbackPath \o <<"?", "token">>,
                  Body("json", NumStatus(2), Url("d1", <<>>), RegisteredKeyA)),
          Request("POST", <<"/">>, Body("json", NumStatus(2), Url("d1", <<>>), RegisteredKeyA)),
          Request("GET", CallbackPath, NoBody),
          Request("OPTIONS", CallbackPath, NoBody)}

NoRequest == Request("none", <<>>, NoBody)

InitCallbackVars ==
    /\ cbReq = NoRequest
    /\ inflight = EmptyBag
    /\ sent = <<>>
    /\ cbLog = Log("none", "")

\* no editor event has been delivered
NoEvent == [channel |-> "none", hasUrl |-> FALSE, isDirty |-> FALSE]
NoContext == [useSystemSaveAs |-> FALSE, leaf |-> FALSE, performingFallback |-> FALSE,
              webview |-> FALSE]
NoAction == [op |-> "none", isDirty |-> FALSE]

InitEventsIdle ==
    /\ event = [ev |-> NoEvent, ctx |-> NoContext]
    /\ hostAction = [transport |-> "none", did |-> NoAction]

\* both servers are up, their start routines are over
InitPortsIdle ==
    /\ net = {}
    /\ servers = <<>>

\* no file name is being chosen
InitNamesIdle ==
    /\ vaultNames = {}
    /\ naming = <<>>

\* no readiness poll has failed and no save-as is being handled
InitSessIdle ==
    /\ polls = <<>>
    /\ fallback = <<>>
    /\ unloads = <<>>

InitPluginIdle == InitEventsIdle /\ InitPortsIdle /\ InitNamesIdle /\ InitSessIdle

InitStaticIdle ==
    /\ fsFiles = {}
    /\ httpReq = [method |-> "none", url |-> <<>>]
    /\ httpRes = Response(0, "none", <<>>)

\* the callback server on its own: the registry holds what earlier opens left
InitCallback ==
    /\ InitStaticIdle
    /\ InitCallbackVars
    /\ settings = [jwtSecret |-> <<>>, useRequestToken |-> TRUE]
    /\ vault = [p \in {PathA} |-> [data |-> "orig", mtime |-> 1]]
    /\ overwrites = [p \in {PathA} |-> 0]
    /\ keyFileMap \in {<<>>, Register(<<>>, RegisteredKeyA, PathA)}
    /\ tasks = <<>>
    /\ views = [v \in Views |-> [webview |-> 0, inDom |-> 0, isDirty |-> FALSE, forceSaves |-> 0]]
    /\ InitPluginIdle

\* the key of the open of Aa.docx at its first mtime with random suffix x1;
\* the hashes of Aa.docx and BB.docx collide, so it is also the key of
\* BB.docx opened with the same mtime and suffix
SessionKey == UniqueKey(PathA, 1, <<"x", "1">>)

\* the save callback of an editor session holding that key
SessionRequests ==
    {Request("POST", CallbackPath, Body("json", NumStatus(2), Url("d1", <<>>), SessionKey))}

\* the plugin with both servers up, no document opened yet
Init ==
    /\ InitOpen
    /\ InitStaticIdle
    /\ InitCallbackVars
    /\ overwrites = [p \in {PathA, PathB} |-> 0]
    /\ InitPluginIdle

\* two documents at different paths, one per view
ViewFile(v) == IF v = "v1" THEN PathA ELSE PathB

\* the first open of a view
FirstOpen(v) ==
    /\ \A t \in DOMAIN tasks : tasks[t].view # v
    /\ OpenStart(v, ViewFile(v))

\* every view opens its document once; opens, unloads and save callbacks in
\* any interleaving
Next ==
    \/ \E v \in DOMAIN views : FirstOpen(v)
    \/ \E t \in DOMAIN tasks : PollPageOk(t)
    \/ \E t \in DOMAIN tasks, randomId \in RandomIds : PollFileOk(t, randomId)
    \/ \E t \in DOMAIN tasks : DidFinishLoad(t)
    \/ \E v \in DOMAIN views : UnloadFile(v)
    \/ \E req \in SessionRequests : CallbackReceive(req)
    \/ CallbackSteps

Spec == Init /\ [][Next]_vars

\* opens under every setting of the JWT secret and the request token switch,
\* of files with a non-ASCII name and an unsupported extension
PathE == <<"é", ".", "docx">>
PathT == <<"n", ".", "txt">>

InitConfig ==
    /\ settings \in [jwtSecret : {<<>>, <<" ">>, <<"s">>}, useRequestToken : BOOLEAN]
    /\ vault = [p \in {PathA, PathE, PathT} |-> [data |-> "orig", mtime |-> 1]]
    /\ overwrites = [p \in {PathA, PathE, PathT} |-> 0]
    /\ keyFileMap = <<>>
    /\ tasks = <<>>
    /\ views = [v \in {"v1"} |-> [webview |-> 0, inDom |-> 0, isDirty |-> FALSE, forceSaves |-> 0]]
    /\ InitStaticIdle
    /\ InitCallbackVars
    /\ InitPluginIdle

NextConfig == OpenActions

\* one view over one document: it is opened (and reopened), edited, saved by
\* callbacks of its session and unloaded, in any interleaving
InitDirty ==
    /\ settings = [jwtSecret |-> <<>>, useRequestToken |-> TRUE]
    /\ vault = [p \in {PathA} |-> [data |-> "orig", mtime |-> 1]]
    /\ overwrites = [p \in {PathA} |-> 0]
    /\ keyFileMap = <<>>
    /\ tasks = <<>>
    /\ views = [v \in {"v1"} |-> [webview |-> 0, inDom |-> 0, isDirty |-> FALSE, forceSaves |-> 0]]
    /\ InitStaticIdle
    /\ InitCallbackVars
    /\ InitPluginIdle

NextDirty ==
    \/ \E v \in DOMAIN views : OpenStart(v, PathA)
    \/ \E t \in DOMAIN tasks : PollPageOk(t)
    \/ \E t \in DOMAIN tasks : PollFileOk(t, <<"x", "1">>)
    \/ \E t \in DOMAIN tasks : DidFinishLoad(t)
    \/ \E t \in DOMAIN tasks, isDirty \in BOOLEAN : DirtyState(t, isDirty)
    \/ \E v \in DOMAIN views : UnloadFile(v)
    \/ \E req \in SessionRequests : CallbackReceive(req)
    \/ CallbackSteps

SpecDirty == InitDirty /\ [][NextDirty]_vars

SpecConfig == InitConfig /\ [][NextConfig]_vars

NextCallback ==
    \/ \E req \in SaveRequests : CallbackReceive(req)
    \/ CallbackSteps

SpecCallback == InitCallback /\ [][NextCallback]_vars

NextStatus ==
    \/ \E req \in StatusRequests : CallbackReceive(req)
    \/ CallbackSteps

SpecStatus == InitCallback /\ [][NextStatus]_vars

(***************************************************************************)
(* Editor events in the host (console-message and ipc-message listeners)   *)
(***************************************************************************)
\* the events the init script sends with __sendToHost; a save-as event may
\* carry the url of the converted document, a dirty-state event the flag
Events ==
    {[channel |-> "onlyoffice-dirty-state", hasUrl |-> FALSE, isDirty |-> d] : d \in BOOLEAN}
    \cup {[channel |-> "onlyoffice-save-as", hasUrl |-> u, isDirty |-> FALSE] : u \in BOOLEAN}
    \cup {[channel |-> c, hasUrl |-> FALSE, isDirty |-> FALSE] :
            c \in {"onlyoffice-create-new", "onlyoffice-error", "onlyoffice-app-ready"}}

\* what the listeners read of the view and of the settings
Contexts ==
    [useSystemSaveAs : BOOLEAN, leaf : BOOLEAN, performingFallback : BOOLEAN,
     webview : BOOLEAN]

Transports == {"console-message", "ipc-message"}

Action(op) == [op |-> op, isDirty |-> FALSE]

\* saveAsDocument(forceSaveAs, saveAsData) of a view that shows the editor
SaveAsDocument(forceSaveAs, hasUrl, ctx) ==
    IF hasUrl
    THEN IF ctx.useSystemSaveAs THEN Action("systemSaveDialog")
                                ELSE Action("downloadIntoVault")
    ELSE IF ~ctx.webview THEN Action("saveAsNotAvailable")
    ELSE IF ~ctx.useSystemSaveAs /\ forceSaveAs THEN Action("promptThenDownloadAs")
    ELSE Action("downloadAs")

\* the console-message listener on a line 'OO-EVT:{channel, data}'
ConsoleMessage(ev, ctx) ==
    IF ev.channel = "onlyoffice-save-as"
    THEN IF ev.hasUrl THEN SaveAsDocument(FALSE, TRUE, ctx)
         ELSE IF ctx.useSystemSaveAs
              THEN IF ~ctx.performingFallback THEN Action("fallbackSystemSaveAsFromVault")
                                              ELSE NoAction
              ELSE SaveAsDocument(TRUE, FALSE, ctx)
    ELSE IF ev.channel = "onlyoffice-create-new" THEN Action("openNewDocument")
    ELSE IF ev.channel = "onlyoffice-dirty-state"
         THEN [op |-> "setDirty", isDirty |-> ev.isDirty]
    ELSE NoAction

\* the ipc-message listener on (channel, args[0]); its 'event received'
\* notices are left out, the error notice is the whole action on an error
IpcMessage(ev, ctx) ==
    IF ev.channel = "onlyoffice-save-as"
    THEN SaveAsDocument(~ctx.useSystemSaveAs, ev.hasUrl, ctx)
    ELSE IF ev.channel = "onlyoffice-create-new"
         THEN IF ctx.leaf THEN Action("setViewStateTemplate") ELSE Action("openNewDocument")
    ELSE IF ev.channel = "onlyoffice-app-ready" THEN NoAction
    ELSE IF ev.channel = "onlyoffice-dirty-state"
         THEN [op |-> "setDirty", isDirty |-> ev.isDirty]
    ELSE IF ev.channel = "onlyoffice-error" THEN Action("noticeError")
    ELSE NoAction

\* __sendToHost picked a transport and its listener ran
Deliver(transport) ==
    /\ hostAction.transport = "none"
    /\ hostAction' = [transport |-> transport,
                      did |-> IF transport = "ipc-message"
                              THEN IpcMessage(event.ev, event.ctx)
                              ELSE ConsoleMessage(event.ev, event.ctx)]
    /\ UNCHANGED <<event, staticVars, openVars, cbVars, sessVars, portVars, nameVars>>

\* one editor event in one view context, delivered over either transport
InitEvents ==
    /\ event \in [ev : Events, ctx : Contexts]
    /\ hostAction = [transport |-> "none", did |-> NoAction]
    /\ InitPortsIdle
    /\ InitNamesIdle
    /\ InitSessIdle
    /\ InitStaticIdle
    /\ InitCallbackVars
    /\ settings = [jwtSecret |-> <<>>, useRequestToken |-> TRUE]
    /\ vault = <<>>
    /\ overwrites = <<>>
    /\ keyFileMap = <<>>
    /\ tasks = <<>>
    /\ views = <<>>

NextEvents == \E transport \in Transports : Deliver(transport)

SpecEvents == InitEvents /\ [][NextEvents]_vars

(***************************************************************************)
(* Starting the local servers (startInternalServer, startCallbackServer)   *)
(***************************************************************************)
Kinds == {"static", "callback"}

DefaultStaticPort == 8081
DefaultCallbackPort == 8082
StaticAttempts == 50
CallbackAttempts == 1000

\* the port settings tried: 0 (dynamic) and a configured port
PortSettings == {0, 9000}

\* let port = (setting === 0 ? 8081 : (setting || 8081))
StartPort(kind, setting) ==
    IF setting = 0
    THEN (IF kind = "static" THEN DefaultStaticPort ELSE DefaultCallbackPort)
    ELSE setting

\* const maxPort = port + 50 (static), port + 1000 (callback)
MaxPort(kind, port) ==
    port + (IF kind = "static" THEN StaticAttempts ELSE CallbackAttempts)

\* a loop that also tries maxPort itself
LoopContinuesInclusive(s) == s.port <= s.maxPort /\ ~s.started

\* while (port < maxPort && !serverStarted)
LoopContinues(s) == s.port < s.maxPort /\ ~s.started

\* the start routine's locals and the plugin fields it writes: ref is the
\* server object the plugin field references ("none" for null), published
\* the value of localServerPort / callbackServerPort
StartRoutine(kind, setting) ==
    [kind |-> kind, pc |-> "loop",
     start |-> StartPort(kind, setting),
     port |-> StartPort(kind, setting),
     maxPort |-> MaxPort(kind, StartPort(kind, setting)),
     started |-> FALSE, tried |-> 0,
     ref |-> "none", published |-> 0, verified |-> "no", notice |-> "none"]

\* top of the loop: http.createServer(...) is assigned to the plugin field
\* and listen(port) is called
CreateAndListen(k) ==
    /\ servers[k].pc = "loop"
    /\ LoopContinues(servers[k])
    /\ servers' = [servers EXCEPT ![k].pc = "binding", ![k].ref = "created",
                                  ![k].tried = @ + 1]
    /\ UNCHANGED <<net, staticVars, openVars, cbVars, sessVars, evVars, nameVars>>

\* the catch block of a failed attempt: only startCallbackServer closes the
\* server and clears the field
AfterFailedBind(s) ==
    [s EXCEPT !.pc = "loop", !.port = @ + 1,
              !.ref = IF s.kind = "callback" THEN "none" ELSE "unbound"]

\* listen called back: the port is published and the routine goes on to its
\* test request; or 'error' was emitted and the catch block runs
ListenResult(k) ==
    /\ servers[k].pc = "binding"
    /\ LET s == servers[k]
       IN  servers' = [servers EXCEPT ![k] =
                          IF s.port \in net
                          THEN [s EXCEPT !.pc = "verify", !.ref = "listening",
                                         !.published = s.port, !.started = TRUE]
                          ELSE AfterFailedBind(s)]
    /\ UNCHANGED <<net, staticVars, openVars, cbVars, sessVars, evVars, nameVars>>

\* the HEAD test request returned or threw; a failure is only logged
TestRequest(k, ok) ==
    /\ servers[k].pc = "verify"
    /\ servers' = [servers EXCEPT ![k].pc = "loop",
                                  ![k].verified = IF ok THEN "ok" ELSE "failed"]
    /\ UNCHANGED <<net, staticVars, openVars, cbVars, sessVars, evVars, nameVars>>

\* the loop is left: without a server a notice is shown, and
\* startCallbackServer sets callbackServerPort = 0
Return(k) ==
    /\ servers[k].pc = "loop"
    /\ ~LoopContinues(servers[k])
    /\ LET s == servers[k]
       IN  servers' = [servers EXCEPT
                          ![k].pc = "returned",
                          ![k].notice = IF s.started THEN @ ELSE "no open port",
                          ![k].published = IF s.started \/ s.kind = "static" THEN @ ELSE 0]
    /\ UNCHANGED <<net, staticVars, openVars, cbVars, sessVars, evVars, nameVars>>

\* the ports of a range that may be free: its first three, its last, and
\* the first port past it; every other port is taken
ProbePorts(s) == {s.start, s.start + 1, s.start + 2, s.maxPort - 1, s.maxPort}

\* one start routine under one port setting on a machine with some ports free
InitPorts ==
    /\ \E kind \in Kinds, setting \in PortSettings :
          /\ servers = [k \in {kind} |-> StartRoutine(kind, setting)]
          /\ net \in SUBSET ProbePorts(servers[kind])
    /\ InitEventsIdle
    /\ InitNamesIdle
    /\ InitSessIdle
    /\ InitStaticIdle
    /\ InitCallbackVars
    /\ settings = [jwtSecret |-> <<>>, useRequestToken |-> TRUE]
    /\ vault = <<>>
    /\ overwrites = <<>>
    /\ keyFileMap = <<>>
    /\ tasks = <<>>
    /\ views = <<>>

NextPorts ==
    \/ \E k \in DOMAIN servers : CreateAndListen(k)
    \/ \E k \in DOMAIN servers : ListenResult(k)
    \/ \E k \in DOMAIN servers, ok \in BOOLEAN : TestRequest(k, ok)
    \/ \E k \in DOMAIN servers : Return(k)

SpecPorts == InitPorts /\ [][NextPorts]_vars

(***************************************************************************)
(* Choosing file names (openNewDocument, saveAsDocument)                   *)
(***************************************************************************)
MaxConflicts == 2

\* the characters openNewDocument strips from a prompted name
ForbiddenAtoms == {"\\", "/", ":", "*", "?", "\"", "<", ">", "|"}
IsAllowed(a) == a \notin ForbiddenAtoms

\* String.prototype.trim
RECURSIVE Trim(_)
Trim(s) == IF s # <<>> /\ Head(s) = " " THEN Trim(Tail(s))
           ELSE IF s # <<>> /\ Last(s) = " " THEN Trim(Front(s))
           ELSE s

\* requestedName.replace(/[\\/:*?"<>|]/g,'').trim()
Sanitize(name) == Trim(SelectSeq(name, IsAllowed))

\* a pattern whose dot is escaped: the name ends in ".ext"
EndsWithDotExt(name, ext) ==
    Len(name) >= 2 /\ Last(name) = ext /\ name[Len(name) - 1] = "."

\* new RegExp(`\.${ext}$`,'i').test(name): the template literal drops the
\* backslash, so the pattern is .ext$ and its dot matches any character
ExtRegexTest(name, ext) == Len(name) >= 2 /\ Last(name) = ext

\* name.replace(new RegExp(`\.${ext}$`,'i'),'')
StripExt(name, ext) == IF ExtRegexTest(name, ext) THEN SubSeq(name, 1, Len(name) - 2) ELSE name

\* `${base} (${i}).${ext}`
Candidate(base, i, ext) == base \o <<" ", "(">> \o ToDecimal(i) \o <<")", ".", ext>>

\* let i=1; while (getAbstractFileByPath(candidate)) i++
RECURSIVE FirstFreeCandidate(_, _, _, _)
FirstFreeCandidate(base, i, ext, files) ==
    IF Candidate(base, i, ext) \in files
    THEN FirstFreeCandidate(base, i + 1, ext, files)
    ELSE Candidate(base, i, ext)

\* the name openNewDocument settles on for a sanitized prompted name
RequestedName(name, ext, files) ==
    LET withExt == IF ExtRegexTest(name, ext) THEN name ELSE name \o <<".", ext>>
    IN  IF withExt \in files
        THEN FirstFreeCandidate(StripExt(withExt, ext), 1, ext, files)
        ELSE withExt

\* 'Untitled Document.ext', 'Untitled Document 2.ext', ...
RECURSIVE UntitledName(_, _, _)
UntitledName(idx, ext, files) ==
    LET n == IF idx = 1 THEN <<"Untitled Document", ".", ext>>
             ELSE <<"Untitled Document", " ">> \o ToDecimal(idx) \o <<".", ext>>
    IN  IF n \in files THEN UntitledName(idx + 1, ext, files) ELSE n

\* the locals of openNewDocument
NewDocument(prompted, name, ext) ==
    [routine |-> "openNewDocument", pc |-> "prompt", prompted |-> prompted,
     name |-> name, ext |-> ext, requested |-> <<>>, seen |-> {},
     finalName |-> <<>>, created |-> FALSE, opened |-> FALSE, notice |-> "none",
     cancelled |-> FALSE, templateFound |-> FALSE]

\* vault.createBinary(finalName, data): it throws when the path exists;
\* when it resolves, the new file is opened with openOnlyOfficeFile
CreateBinary(n, finalName) ==
    /\ naming' = [n EXCEPT !.finalName = finalName,
                           !.pc = "returned",
                           !.created = finalName \notin vaultNames,
                           !.opened = finalName \notin vaultNames,
                           !.notice = IF finalName \in vaultNames
                                      THEN IF n.routine = "openNewDocument"
                                           THEN "Failed to create new document"
                                           ELSE "Save As failed"
                                      ELSE n.notice]
    /\ vaultNames' = vaultNames \cup {finalName}

\* 'Determine final filename', then createBinary
CreateNewDocument(n) ==
    CreateBinary(n, IF n.requested # <<>> THEN n.requested
                    ELSE UntitledName(1, n.ext, vaultNames))

\* a plugin that embeds a minimal document of every type
EmbeddedMinimalAny(ext) == TRUE

\* the types for which the plugin embeds a minimal document to fall back on
EmbeddedMinimal(ext) == ext = "docx"

\* the prompt was answered (cancelled, or with the name and type of the
\* routine's record): the name is sanitized, given its extension and made
\* unique; then a template is looked up and, if one exists, read
ChooseName(cancelled, templateFound) ==
    /\ naming.routine = "openNewDocument" /\ naming.pc = "prompt"
    /\ naming.prompted \/ ~cancelled
    /\ LET clean == Sanitize(naming.name)
           answered == [naming EXCEPT !.cancelled = cancelled]
           stop(notice) == /\ naming' = [answered EXCEPT !.pc = "returned", !.notice = notice]
                           /\ UNCHANGED vaultNames
           n == [answered EXCEPT !.seen = vaultNames,
                                 !.templateFound = templateFound,
                                 !.requested = IF naming.prompted
                                               THEN RequestedName(clean, naming.ext, vaultNames)
                                               ELSE <<>>]
       IN  IF naming.prompted /\ cancelled THEN stop("Creation cancelled")
           ELSE IF naming.prompted /\ clean = <<>> THEN stop("Invalid name")
           ELSE IF templateFound
                THEN naming' = [n EXCEPT !.pc = "readTemplate"] /\ UNCHANGED vaultNames
           ELSE IF EmbeddedMinimal(naming.ext) THEN CreateNewDocument(n)
           ELSE /\ naming' = [n EXCEPT !.pc = "returned", !.notice = "No template found"]
                /\ UNCHANGED vaultNames
    /\ UNCHANGED <<staticVars, openVars, cbVars, sessVars, evVars, portVars>>

\* fs.promises.readFile(template) returned
TemplateRead ==
    /\ naming.routine = "openNewDocument" /\ naming.pc = "readTemplate"
    /\ CreateNewDocument(naming)
    /\ UNCHANGED <<staticVars, openVars, cbVars, sessVars, evVars, portVars>>

\* while the routine is suspended something else creates a file in the vault
OtherCreate(path) ==
    /\ naming.pc \in {"readTemplate", "download", "promptName", "reprompt"}
    /\ path \notin vaultNames
    /\ vaultNames' = vaultNames \cup {path}
    /\ UNCHANGED <<naming, staticVars, openVars, cbVars, sessVars, evVars, portVars>>

\* the names a user may type and the types the dialog offers
PromptNames == {<<"D">>, <<"D", "?">>, <<"?">>, <<"D", ".", "xlsx">>, <<"m", "docx">>}
NewTypes == {"docx", "xlsx", "pptx"}

\* the files that may exist: the plain name and its first suffixed variants
NameFamily(base, ext) ==
    {base \o <<".", ext>>} \cup {Candidate(base, i, ext) : i \in 1..MaxConflicts}

InitNamesRest ==
    /\ InitEventsIdle
    /\ InitPortsIdle
    /\ InitSessIdle
    /\ InitStaticIdle
    /\ InitCallbackVars
    /\ settings = [jwtSecret |-> <<>>, useRequestToken |-> TRUE]
    /\ vault = <<>>
    /\ overwrites = <<>>
    /\ keyFileMap = <<>>
    /\ tasks = <<>>
    /\ views = <<>>

\* openNewDocument is called in a vault holding some files of the family;
\* without the prompt the type stays docx
InitNewDoc ==
    /\ \E prompted \in BOOLEAN, name \in PromptNames,
          ext \in NewTypes :
          /\ prompted \/ ext = "docx"
          /\ naming = NewDocument(prompted, IF prompted THEN name ELSE <<>>, ext)
          /\ vaultNames \in SUBSET (IF prompted THEN NameFamily(Sanitize(name), ext)
                                    ELSE {UntitledName(1, ext, {})})
    /\ InitNamesRest

NextNewDoc ==
    \/ \E cancelled, templateFound \in BOOLEAN : ChooseName(cancelled, templateFound)
    \/ TemplateRead
    \/ \E path \in NameFamily(Sanitize(naming.name), naming.ext) : OtherCreate(path)

SpecNewDoc == InitNewDoc /\ [][NextNewDoc]_vars

\* the locals of saveAsDocument(false, {url, title}) in internal Save As mode
SaveAs(title, ext) ==
    [routine |-> "saveAsDocument", pc |-> "download", ext |-> ext,
     fileName |-> title, originalBase |-> <<>>, attempt |-> 0, prompts |-> 0,
     finalName |-> <<>>, created |-> FALSE, opened |-> FALSE, notice |-> "none"]

\* if (!fileName.toLowerCase().endsWith('.'+ext)) fileName += '.'+ext
EnsureExt(name, ext) == IF EndsWithDotExt(name, ext) THEN name ELSE name \o <<".", ext>>

\* a loop that takes the next suffixed name without checking it
AutoIncrementOnce(fileName, attempt, base, ext, files) ==
    IF fileName \in files THEN Candidate(base, attempt + 1, ext) ELSE fileName

\* the conflict loop once the re-prompt is behind it: while the name exists,
\* attempt++ and fileName = `${originalBase} (${attempt}).${ext}`
RECURSIVE AutoIncrement(_, _, _, _, _)
AutoIncrement(fileName, attempt, base, ext, files) ==
    IF fileName \in files
    THEN AutoIncrement(Candidate(base, attempt + 1, ext), attempt + 1, base, ext, files)
    ELSE fileName

\* the extension is ensured and the conflict loop entered: a free name is
\* created at once, the first conflict asks the user for another name
EnterLoop(n, fileName) ==
    LET withExt == EnsureExt(fileName, n.ext)
        m == [n EXCEPT !.fileName = withExt, !.originalBase = StripExt(withExt, n.ext)]
    IN  IF withExt \in vaultNames
        THEN /\ naming' = [m EXCEPT !.pc = "reprompt", !.attempt = 1, !.prompts = @ + 1]
             /\ UNCHANGED vaultNames
        ELSE CreateBinary(m, withExt)

\* requestUrl returned: without a title the user is asked for a name
Downloaded(ok) ==
    /\ naming.routine = "saveAsDocument" /\ naming.pc = "download"
    /\ IF ~ok
       THEN /\ naming' = [naming EXCEPT !.pc = "returned", !.notice = "Save As failed"]
            /\ UNCHANGED vaultNames
       ELSE IF naming.fileName = <<>>
            THEN /\ naming' = [naming EXCEPT !.pc = "promptName", !.prompts = @ + 1]
                 /\ UNCHANGED vaultNames
            ELSE EnterLoop(naming, naming.fileName)
    /\ UNCHANGED <<staticVars, openVars, cbVars, sessVars, evVars, portVars>>

\* promptForFileName for a missing name resolved
NamePrompted(answer) ==
    /\ naming.routine = "saveAsDocument" /\ naming.pc = "promptName"
    /\ IF answer = <<>>
       THEN /\ naming' = [naming EXCEPT !.pc = "returned", !.notice = "Save As cancelled"]
            /\ UNCHANGED vaultNames
       ELSE EnterLoop(naming, answer)
    /\ UNCHANGED <<staticVars, openVars, cbVars, sessVars, evVars, portVars>>

\* the re-prompt of the first conflict resolved: a new name is re-checked,
\* without one the suffixed name is taken; the loop runs on to a free name,
\* which is created
Reprompted(retry) ==
    /\ naming.routine = "saveAsDocument" /\ naming.pc = "reprompt"
    /\ LET n == naming
           next == IF retry # <<>> THEN EnsureExt(retry, n.ext)
                   ELSE Candidate(n.originalBase, 1, n.ext)
       IN  CreateBinary(n, AutoIncrement(next, 1, n.originalBase, n.ext, vaultNames))
    /\ UNCHANGED <<staticVars, openVars, cbVars, sessVars, evVars, portVars>>

\* the titles the editor may send and the names a user may type
SaveAsTitles == {<<>>, <<"D">>, <<"D", ".", "docx">>}
SaveAsAnswers == {<<>>, <<"D">>, <<"E">>}
SaveAsFiles == NameFamily(<<"D">>, "docx") \cup {<<"E", ".", "docx">>}

\* a save-as event with a url arrived in a vault holding some of the files
InitSaveAs ==
    /\ \E title \in SaveAsTitles : naming = SaveAs(title, "docx")
    /\ vaultNames \in SUBSET SaveAsFiles
    /\ InitNamesRest

NextSaveAs ==
    \/ \E ok \in BOOLEAN : Downloaded(ok)
    \/ \E answer \in SaveAsAnswers : NamePrompted(answer)
    \/ \E retry \in SaveAsAnswers : Reprompted(retry)
    \/ \E path \in SaveAsFiles : OtherCreate(path)

SpecSaveAs == InitSaveAs /\ [][NextSaveAs]_vars

(***************************************************************************)
(* The key registry among the plugin's other handlers                      *)
(***************************************************************************)
\* onClose: it removes boundMessageHandler and clears dirtyCheckInterval when
\* they are set; neither field is ever assigned, so nothing changes
CloseView(v) ==
    /\ v \in DOMAIN views
    /\ UNCHANGED vars

\* a save-as or create-new event reaches the view's listener over a transport
HandleEvent(ev, ctx, transport) ==
    /\ hostAction.transport = "none"
    /\ event' = [ev |-> ev, ctx |-> ctx]
    /\ hostAction' = [transport |-> transport,
                      did |-> IF transport = "ipc-message" THEN IpcMessage(ev, ctx)
                              ELSE ConsoleMessage(ev, ctx)]
    /\ UNCHANGED <<staticVars, openVars, cbVars, portVars, nameVars, sessVars>>

\* the static server answers a request for one of its two API routes
ApiRequest(url) ==
    /\ httpRes.kind = "none"
    /\ httpReq' = [method |-> "GET", url |-> url]
    /\ httpRes' = StaticHandler(fsFiles, "GET", url)
    /\ UNCHANGED <<fsFiles, openVars, cbVars, pluginVars>>

ApiUrls == {<<"/", "api", "/", "createNew">>, <<"/", "api", "/", "saveAs">>}

SaveAsEvents ==
    {ev \in Events : ev.channel \in {"onlyoffice-save-as", "onlyoffice-create-new"}}

\* the view shows an editor in a leaf
EditorContext(useSystemSaveAs) ==
    [useSystemSaveAs |-> useSystemSaveAs, leaf |-> TRUE, performingFallback |-> FALSE,
     webview |-> TRUE]

\* callbacks of saving and other statuses, with registered, unregistered,
\* legacy and missing keys, json, form and unparsable bodies, with and
\* without a url, and another method
RegistryRequests ==
    {Request("POST", CallbackPath, Body("json", NumStatus(n), Url("d1", <<>>), SessionKey)) :
        n \in {1, 2}}
    \cup {Request("POST", CallbackPath, Body("form", StrStatus(<<"6">>), Url("d1", <<>>), key)) :
            key \in {UnregisteredKey, LegacyKeyA}}
    \cup {Request("POST", CallbackPath, Body("garbage", NoStatus, NoUrl, <<>>)),
          Request("GET", CallbackPath, NoBody)}

InitRegistry ==
    /\ InitDirty
    /\ fsFiles = {}

NextRegistry ==
    \/ \E v \in DOMAIN views : FirstOpen(v)
    \/ \E t \in DOMAIN tasks : PollPageOk(t)
    \/ \E t \in DOMAIN tasks : PollFileOk(t, <<"x", "1">>)
    \/ \E v \in DOMAIN views : UnloadFile(v)
    \/ \E v \in DOMAIN views : CloseView(v)
    \/ \E req \in RegistryRequests : CallbackReceive(req)
    \/ CallbackSteps
    \/ \E ev \in SaveAsEvents, transport \in Transports :
          HandleEvent(ev, EditorContext(FALSE), transport)
    \/ \E url \in ApiUrls : ApiRequest(url)

SpecRegistry == InitRegistry /\ [][NextRegistry]_vars

(***************************************************************************)
(* Readiness polls of an open (onLoadFile's two HEAD loops)                *)
(***************************************************************************)
maxWait == 5000
checkInterval == 250

NoPolls == [page |-> 0, file |-> 0, notice |-> ""]

\* the time the open has waited in its page poll and in its file poll, and
\* the notice it has shown
PollsOf(t) == IF t \in DOMAIN polls THEN polls[t] ELSE NoPolls

SetPolls(t, p) == [u \in DOMAIN polls \cup {t} |-> IF u = t THEN p ELSE PollsOf(u)]

\* a loop that allows one more attempt
LoopGuardInclusive(waited) == waited <= maxWait

\* while (waited < maxWait && !ok)
LoopGuard(waited) == waited < maxWait

\* a HEAD request of a poll was rejected and the pause after it elapsed:
\* waited grows by checkInterval; when the loop guard fails the open is
\* abandoned with a notice and the error panel in place of the content
PollFailed(t, poll) ==
    /\ tasks[t].pc = (IF poll = "page" THEN "pollPage" ELSE "pollFile")
    /\ LET p == PollsOf(t)
           waited == (IF poll = "page" THEN p.page ELSE p.file) + checkInterval
           q == IF poll = "page" THEN [p EXCEPT !.page = waited]
                ELSE [p EXCEPT !.file = waited]
       IN  IF LoopGuard(waited)
           THEN /\ polls' = SetPolls(t, q)
                /\ UNCHANGED <<tasks, views>>
           ELSE /\ polls' = SetPolls(t, [q EXCEPT !.notice =
                               IF poll = "page" THEN "editor.html is not available"
                               ELSE "file is not available"])
                /\ tasks' = [tasks EXCEPT ![t].pc = "failed",
                                ![t].error = IF poll = "page"
                                             THEN "Could not connect to the local server"
                                             ELSE "File could not be accessed by the server"]
                /\ views' = [views EXCEPT ![tasks[t].view].inDom = 0]
    /\ UNCHANGED <<settings, vault, keyFileMap, fallback, unloads, cbVars, staticVars,
                   evVars, portVars, nameVars>>

InitPoll == InitDirty

\* one open of a document whose polls succeed or fail attempt by attempt
NextPoll ==
    \/ \E v \in DOMAIN views : FirstOpen(v)
    \/ \E t \in DOMAIN tasks, poll \in {"page", "file"} : PollFailed(t, poll)
    \/ \E t \in DOMAIN tasks : PollPageOk(t)
    \/ \E t \in DOMAIN tasks : PollFileOk(t, <<"x", "1">>)
    \/ \E v \in DOMAIN views : UnloadFile(v)

SpecPoll == InitPoll /\ [][NextPoll]_vars

(***************************************************************************)
(* Two saves of one editor session                                         *)
(***************************************************************************)
\* two save callbacks of the session, each with the url of its own version
RaceRequests ==
    {Request("POST", CallbackPath, Body("json", NumStatus(2), Url(doc, <<>>), SessionKey)) :
        doc \in {"d1", "d2"}}

\* the registry holds the session's key
InitRace ==
    /\ InitCallback
    /\ Registered(keyFileMap, SessionKey)

\* the callbacks arrive in any order and number; every download and every
\* write succeeds, each in its own time
NextRace ==
    \/ \E req \in RaceRequests : CallbackReceive(req)
    \/ \E c \in BagToSet(inflight) : CallbackDownloaded(c, "ok")
    \/ \E c \in BagToSet(inflight), mtime \in 1..MaxMtime : CallbackWritten(c, mtime)

SpecRace == InitRace /\ [][NextRace]_vars

(***************************************************************************)
(* Unloading a view while its opens are suspended                          *)
(***************************************************************************)
\* onUnloadFile of a view whose file was loaded, whatever the view shows: as
\* UnloadFile, and the number of opens begun so far is noted for the view
OnUnloadFile(v) ==
    /\ \E t \in DOMAIN tasks : tasks[t].view = v
    /\ views' = [views EXCEPT ![v].webview = 0, ![v].inDom = 0,
                              ![v].forceSaves = @ + ForceSave(views[v])]
    /\ keyFileMap' = KeepKeys(keyFileMap,
                               {tasks[t].key : t \in {u \in DOMAIN tasks : tasks[u].view = v}})
    /\ unloads' = [w \in DOMAIN unloads \cup {v} |->
                      IF w = v THEN Len(tasks) ELSE unloads[w]]
    /\ UNCHANGED <<settings, vault, tasks, polls, fallback, cbVars, staticVars, evVars,
                   portVars, nameVars>>

\* one view over one document, without and with a JWT secret
InitUnload ==
    /\ settings \in [jwtSecret : {<<>>, <<"s">>}, useRequestToken : {TRUE}]
    /\ vault = [p \in {PathA} |-> [data |-> "orig", mtime |-> 1]]
    /\ overwrites = [p \in {PathA} |-> 0]
    /\ keyFileMap = <<>>
    /\ tasks = <<>>
    /\ views = [v \in {"v1"} |-> [webview |-> 0, inDom |-> 0, isDirty |-> FALSE, forceSaves |-> 0]]
    /\ InitStaticIdle
    /\ InitCallbackVars
    /\ InitPluginIdle

\* opens, their polls and signing calls, and unloads, in any interleaving
NextUnload ==
    \/ \E v \in DOMAIN views : OpenStart(v, PathA)
    \/ \E t \in DOMAIN tasks : PollPageOk(t)
    \/ \E t \in DOMAIN tasks : PollFileOk(t, <<"x", "1">>)
    \/ \E t \in DOMAIN tasks, ok \in BOOLEAN : SignReqDone(t, ok)
    \/ \E t \in DOMAIN tasks, ok \in BOOLEAN : SignCfgDone(t, ok)
    \/ \E t \in DOMAIN tasks : DidFinishLoad(t)
    \/ \E v \in DOMAIN views : OnUnloadFile(v)

SpecUnload == InitUnload /\ [][NextUnload]_vars

(***************************************************************************)
(* The system save-as fallback and its guard flag                          *)
(***************************************************************************)
MaxFallbacks == 2

\* a view's performingSystemSaveAsFallback flag and the runs of
\* fallbackSystemSaveAsFromVault that are suspended in vault.readBinary
NoFallback == [performing |-> FALSE, running |-> 0]

\* what the listeners read of a view that shows the editor in a leaf
ViewContext(v) ==
    [useSystemSaveAs |-> event.ctx.useSystemSaveAs, leaf |-> TRUE,
     performingFallback |-> fallback[v].performing, webview |-> TRUE]

\* the console-message listener of the view's webview on an event: a save-as
\* with a url clears the flag before saveAsDocument is called; a save-as
\* without a url, with system save-as on and the flag clear, sets the flag
\* and starts the fallback, which suspends reading the file
ConsoleEvent(v, ev) ==
    LET did == ConsoleMessage(ev, ViewContext(v))
    IN  /\ did.op = "fallbackSystemSaveAsFromVault" => fallback[v].running < MaxFallbacks
        /\ fallback' = [fallback EXCEPT ![v] =
              IF ev.channel = "onlyoffice-save-as" /\ ev.hasUrl
                THEN [@ EXCEPT !.performing = FALSE]
              ELSE IF did.op = "fallbackSystemSaveAsFromVault"
                THEN [performing |-> TRUE, running |-> @.running + 1]
              ELSE @]
        /\ event' = [ev |-> ev, ctx |-> ViewContext(v)]
        /\ hostAction' = [transport |-> "console-message", did |-> did]
        /\ UNCHANGED <<staticVars, openVars, cbVars, portVars, nameVars, polls, unloads>>

\* the ipc-message listener on an event: it never touches the flag
IpcEvent(v, ev) ==
    /\ event' = [ev |-> ev, ctx |-> ViewContext(v)]
    /\ hostAction' = [transport |-> "ipc-message", did |-> IpcMessage(ev, ViewContext(v))]
    /\ UNCHANGED <<staticVars, openVars, cbVars, portVars, nameVars, sessVars>>

\* a run of fallbackSystemSaveAsFromVault resumes after readBinary (resolved
\* or rejected) and ends: finally { performingSystemSaveAsFallback = false }
FallbackDone(v) ==
    /\ fallback[v].running > 0
    /\ fallback' = [fallback EXCEPT ![v] = [performing |-> FALSE, running |-> @.running - 1]]
    /\ UNCHANGED <<staticVars, openVars, cbVars, evVars, portVars, nameVars, polls, unloads>>

\* two views with an editor each, under either setting of useSystemSaveAs
InitFallback ==
    /\ fallback = [v \in Views |-> NoFallback]
    /\ \E useSystemSaveAs \in BOOLEAN :
          event = [ev |-> NoEvent,
                   ctx |-> [NoContext EXCEPT !.useSystemSaveAs = useSystemSaveAs]]
    /\ hostAction = [transport |-> "none", did |-> NoAction]
    /\ polls = <<>>
    /\ unloads = <<>>
    /\ InitPortsIdle
    /\ InitNamesIdle
    /\ InitStaticIdle
    /\ InitCallbackVars
    /\ settings = [jwtSecret |-> <<>>, useRequestToken |-> TRUE]
    /\ vault = <<>>
    /\ overwrites = <<>>
    /\ keyFileMap = <<>>
    /\ tasks = <<>>
    /\ views = <<>>

SaveAsEventsOf(hasUrl) ==
    {ev \in Events : ev.channel = "onlyoffice-save-as" /\ ev.hasUrl = hasUrl}

NextFallback ==
    \/ \E v \in Views, ev \in SaveAsEventsOf(FALSE) : ConsoleEvent(v, ev)
    \/ \E v \in Views, ev \in SaveAsEventsOf(TRUE) : ConsoleEvent(v, ev)
    \/ \E v \in Views, ev \in SaveAsEventsOf(FALSE) \cup SaveAsEventsOf(TRUE) : IpcEvent(v, ev)
    \/ \E v \in Views : FallbackDone(v)

SpecFallback == InitFallback /\ [][NextFallback]_vars

(***************************************************************************)
(* Downloads of a save callback that bring nothing                         *)
(***************************************************************************)
\* save callbacks of the session whose url holds a document, and one whose
\* url is answered with an empty body
DownloadRequests ==
    {Request("POST", CallbackPath, Body("json", NumStatus(2), Url(doc, <<>>), SessionKey)) :
        doc \in {"d1", "d0"}}

\* the callbacks arrive in any order; each download throws, ends with
\* another status than 200, or ends with 200 and the body the url holds
NextDownload ==
    \/ \E req \in DownloadRequests : CallbackReceive(req)
    \/ CallbackSteps

SpecDownload == InitRace /\ [][NextDownload]_vars

(***************************************************************************)
(* Properties of the callback receiver                                     *)
(***************************************************************************)
IsCallbackPost(req) ==
    req.method = "POST" /\ Head(SplitOn(req.url, "?")) = <<"/", "callback">>

\* the body was parsed into a data object
Parsed(body) == body.fmt \in {"json", "scalar"} \/ (body.fmt = "form" /\ FormParsable(body))

\* the latest step received a POST /callback whose body was parsed
ReceivedCallback ==
    cbLog.step = "receive" /\ IsCallbackPost(cbReq) /\ Parsed(cbReq.body)

ParsedStatus == ParseStatus(DataOf(cbReq.body).status)

\* the latest step started a download (the handler is suspended in requestUrl)
FetchStarted ==
    /\ cbLog.why \in {"Resolved file path from map", "Extracted legacy file path"}
    /\ sent = <<>>
    /\ \E c \in BagToSet(inflight) : c.pc = "download"

\* C2 (as claimed): a callback whose status is not 2 or 6 starts no fetch and is
\* acknowledged.
C2_OnlyStatus2And6 ==
    (ReceivedCallback /\ ParsedStatus \notin {2, 6}) => (sent = <<Ack>> /\ ~FetchStarted)

\* C2 (amended): statuses 2, 6 and 0 -- 0 is also what a missing or non-numeric
\* status parses to -- start a fetch when url and a resolvable key are present;
\* a callback with any other status starts no fetch and is acknowledged.
C2_SaveStatuses ==
    /\ (ReceivedCallback /\ ParsedStatus \notin {0, 2, 6}) => (sent = <<Ack>> /\ ~FetchStarted)
    /\ (ReceivedCallback /\ ParsedStatus \in {0, 2, 6}
          /\ cbReq.body.url # NoUrl /\ Registered(keyFileMap, KeyOf(DataOf(cbReq.body))))
        => FetchStarted

\* a status-4 callback with url and a registered key was acknowledged and the
\* file is untouched
C2_Witness ==
    /\ ReceivedCallback /\ cbReq.body.status = NumStatus(4)
    /\ Registered(keyFileMap, cbReq.body.key)
    /\ sent = <<Ack>> /\ inflight = EmptyBag /\ vault[PathA].data = "orig"

\* the step completes the write of the suspended handler c
WriteDone(c) ==
    /\ c.pc = "write" /\ inflight' = Resume(inflight, c)
    /\ cbLog' = Log("written", "Document saved successfully")

\* C4: the step that completes a save callback's write leaves the resolved file
\* holding exactly the fetched bytes (so a repeated identical callback leaves the
\* same bytes), and the vault changes in no other step: once per callback.
C4_OverwriteOnce ==
    [][ /\ \A c \in BagToSet(inflight) :
              WriteDone(c) =>
                  /\ vault'[c.path].data = UrlBytes(c.url.doc)
                  /\ \A q \in DOMAIN vault \ {c.path} : vault'[q] = vault[q]
        /\ vault' # vault => \E c \in BagToSet(inflight) : WriteDone(c) ]_vars

\* Aa.docx was overwritten twice in a row with the bytes of d1 and holds them
C4_Witness == overwrites[PathA] = 2 /\ vault[PathA].data = "B1"

\* C5 (as claimed): every response of the callback server is a JSON body with
\* error 0, and a handler that has ended has written exactly one.
C5_AlwaysError0 ==
    /\ \A k \in DOMAIN sent : sent[k] \in {Ack, AckInfo}
    /\ cbLog.step = "receive" => (Len(sent) = 1 \/ FetchStarted)

\* C5 (amended): every request other than OPTIONS gets exactly one response,
\* 200 with error 0 (plus info for another path or method), when its handler
\* ends -- at once, or when the download or the write settles; OPTIONS gets 200
\* with an empty body; no exception leaves the handler.
C5_AlwaysAcknowledged ==
    /\ cbLog.step = "receive" =>
          IF cbReq.method = "OPTIONS" THEN sent = <<EmptyOk>>
          ELSE IF IsCallbackPost(cbReq) THEN (sent = <<Ack>> \/ FetchStarted)
          ELSE sent = <<AckInfo>>
    /\ cbLog.step = "downloaded" =>
          IF cbLog.why = "modifyBinary" THEN sent = <<>> ELSE sent = <<Ack>>
    /\ cbLog.step = "written" => sent = <<Ack>>

\* a body that parses to null made the handler throw, and it was acknowledged
C5_Witness ==
    cbLog = Log("receive", "Error processing callback") /\ cbReq.body.fmt = "null"
        /\ sent = <<Ack>>

\* the key resolves to a file of the vault
Resolvable(map, vlt, key) ==
    \/ Registered(map, key) /\ map[key] \in DOMAIN vlt
    \/ /\ ~Registered(map, key)
       /\ LegacyGroup(key) # <<>>
       /\ ~DecodeThrows(LegacyGroup(key))
       /\ decodeURIComponent(LegacyGroup(key)) \in DOMAIN vlt

\* C6: a save callback whose key does not resolve to an existing vault file is
\* skipped: its handler ends acknowledged without a download, and the vault is
\* unchanged.
C6_UnresolvedSkipped ==
    [][ ( /\ cbLog'.step = "receive" /\ IsCallbackPost(cbReq') /\ Parsed(cbReq'.body)
          /\ KeyOf(DataOf(cbReq'.body)) # <<>>
          /\ ~Resolvable(keyFileMap, vault, KeyOf(DataOf(cbReq'.body))) )
        => (vault' = vault /\ inflight' = inflight /\ sent' = <<Ack>>) ]_vars

\* the legacy key of a file that is not in the vault was acknowledged unsaved
C6_Witness ==
    /\ cbLog = Log("receive", "File not found in vault")
    /\ cbReq.body.key = LegacyKeyMissing
    /\ sent = <<Ack>> /\ vault[PathA].data = "orig"

(***************************************************************************)
(* Properties of the registry and of opens                                 *)
(***************************************************************************)
\* C3: an entry of the registry is never removed or changed: in every step,
\* each registered key still resolves to the path it resolved to before.
C3_EntriesPermanent ==
    [][\A key \in DOMAIN keyFileMap :
           /\ Registered(keyFileMap', key)
           /\ ResolveAndCheck(keyFileMap', vault', key).path = keyFileMap[key]]_vars

\* a step of the callback server (a request arrives, or a suspended handler
\* goes on)
CallbackStep == cbVars' # cbVars

\* C7: a save callback is bound, when it arrives, to the path the registry holds
\* for its key; completing its write changes that file only; and no step of
\* the callback server changes the registry, so the path of any other key
\* stays as it is.
C7_OnlyOwnFile ==
    [][ /\ (cbLog'.step = "receive" /\ inflight' # inflight) =>
              /\ Registered(keyFileMap, KeyOf(DataOf(cbReq'.body)))
              /\ inflight' = Suspend(inflight,
                                 Suspended(keyFileMap[KeyOf(DataOf(cbReq'.body))],
                                           cbReq'.body.url, "download"))
        /\ \A c \in BagToSet(inflight) :
              WriteDone(c) => \A q \in DOMAIN vault \ {c.path} : vault'[q] = vault[q]
        /\ (CallbackStep /\ ~\E c \in BagToSet(inflight) : WriteDone(c)) => vault' = vault
        /\ CallbackStep => keyFileMap' = keyFileMap ]_vars

\* both documents are open under different keys, the callback for the key of
\* Aa.docx has been written, and BB.docx holds what it held
C7_Witness ==
    /\ \E t1, t2 \in DOMAIN tasks :
          /\ tasks[t1].path = PathA /\ tasks[t1].key = SessionKey
          /\ tasks[t2].path = PathB /\ tasks[t2].key \notin {<<>>, SessionKey}
          /\ keyFileMap[tasks[t1].key] = PathA /\ keyFileMap[tasks[t2].key] = PathB
    /\ cbLog.step = "written"
    /\ vault[PathA].data = "B1" /\ vault[PathB].data = "orig"

\* C8: no two open attempts hold the same key.
C8_KeysUnique ==
    \A t1, t2 \in DOMAIN tasks :
        (t1 # t2 /\ tasks[t1].key # <<>>) => tasks[t1].key # tasks[t2].key

\* C9: a task whose config has been handed to the editor has its key in the
\* registry; and a save callback whose key is not registered (and is no legacy
\* key) has been acknowledged without a download.
C9_RegisteredBeforeDelivery ==
    /\ \A t \in DOMAIN tasks :
          tasks[t].config # <<>> =>
              /\ tasks[t].config.document.key = tasks[t].key
              /\ Registered(keyFileMap, tasks[t].key)
    /\ (ReceivedCallback /\ ~Registered(keyFileMap, KeyOf(DataOf(cbReq.body))))
          => (cbLog.why = "Could not resolve file path for key" /\ sent = <<Ack>>
              /\ ~FetchStarted)

\* the callback for the key of an open that has not reached its registration
\* was answered NotFound, while the other document's config is delivered
C9_Witness ==
    /\ cbLog = Log("receive", "Could not resolve file path for key")
    /\ ~Registered(keyFileMap, SessionKey)
    /\ \E t \in DOMAIN tasks : tasks[t].path = PathA /\ tasks[t].pc = "pollFile"
    /\ \E t \in DOMAIN tasks : tasks[t].pc = "delivered" /\ Registered(keyFileMap, tasks[t].key)

\* C10: for a delivered config that was signed, the document and editorConfig
\* sections handed to the editor equal those of the signed payload, the four
\* URLs carry the request token when one is used, and the payload's claims are
\* document, editorConfig and iat.
C10_DeliveredEqualsSigned ==
    \A t \in DOMAIN tasks :
        (tasks[t].pc = "delivered" /\ tasks[t].signedToken # <<>>) =>
            LET claims == tasks[t].signedToken.claims
                config == tasks[t].config
                signedUrls == <<claims.document.url, claims.editorConfig.callbackUrl,
                                claims.editorConfig.createUrl, claims.editorConfig.saveAsUrl>>
                tokenTail == <<"token=">> \o RequestToken(tasks[t].key)
            IN  /\ DOMAIN claims = {"document", "editorConfig", "iat"}
                /\ settings.useRequestToken =>
                      \A i \in 1..4 :
                          SubSeq(signedUrls[i], Len(signedUrls[i]) - Len(tokenTail) + 1,
                                 Len(signedUrls[i])) = tokenTail
                /\ config.token = tasks[t].signedToken
                /\ config.document = claims.document
                /\ config.editorConfig = claims.editorConfig

(***************************************************************************)
(* Properties of signing failures                                          *)
(***************************************************************************)
Signing(pc) == pc \in {"signReq", "signCfg"}

\* C11: with a secret configured, a signing call that fails ends the open
\* with the error shown; an open that ended so never has a config delivered,
\* and every config that is delivered carries the signed token.
C11_SignFailureAborts ==
    [][\A t \in DOMAIN tasks :
          /\ (Signing(tasks[t].pc) /\ tasks'[t].pc \notin {tasks[t].pc, "signCfg", "ready"})
                => tasks'[t] = [tasks[t] EXCEPT !.pc = "failed",
                                                !.error = "Failed to initialize editor",
                                                !.loaded = tasks'[t].loaded]
          /\ tasks[t].pc = "failed" => (tasks'[t].pc = "failed" /\ tasks'[t].config = <<>>)
          /\ (SecretConfigured(settings) /\ tasks'[t].config # <<>>)
                => ("token" \in DOMAIN tasks'[t].config
                    /\ tasks'[t].config.token = SignJWT(tasks'[t].payload))]_vars

\* signing failed after did-finish-load had fired: nothing was delivered
C11_Witness ==
    \E t \in DOMAIN tasks :
        /\ SecretConfigured(settings)
        /\ tasks[t].error = "Failed to initialize editor"
        /\ tasks[t].loaded /\ tasks[t].config = <<>>

(***************************************************************************)
(* Properties of the dirty flag and of closing a view                      *)
(***************************************************************************)
\* the document a view currently shows
ViewShows(v, path) == views[v].webview # 0 /\ tasks[views[v].webview].path = path

\* a save callback overwrote the file at path in this step
Overwritten(path) == \E c \in BagToSet(inflight) : c.path = path /\ WriteDone(c)

\* C12: per open view the dirty flag goes from Clean to Dirty on a dirty
\* event of the editor, and from Dirty to Clean when a save callback
\* overwrote the view's file, so that after a successful save the view is
\* Clean.
C12_DirtyStateMachine ==
    [][\A v \in DOMAIN views :
          /\ (\E t \in DOMAIN tasks : DirtyState(t, TRUE) /\ tasks[t].view = v)
                => views'[v].isDirty
          /\ \A path \in DOMAIN vault :
                (ViewShows(v, path) /\ Overwritten(path)) => ~views'[v].isDirty]_vars

\* onUnloadFile ran for the view in this step: its webview is released
UnloadStep(v) ==
    /\ tasks' = tasks
    /\ views'[v] # views[v]
    /\ views'[v].webview = 0 /\ views'[v].inDom = 0

C14_TransportAgnostic ==
    hostAction.transport # "none"
        => ConsoleMessage(event.ev, event.ctx) = IpcMessage(event.ev, event.ctx)

(***************************************************************************)
(* Properties of the server start routines                                 *)
(***************************************************************************)
\* C15: after a failed bind the failed server is closed and no longer
\* referenced; the port is published only after bind and verification
\* succeeded; once the start routine returned, the plugin references a
\* server only if it is listening.
C15_NoPartialListener ==
    \A k \in DOMAIN servers :
        /\ (servers[k].pc = "loop" /\ ~servers[k].started) => servers[k].ref = "none"
        /\ servers[k].published # 0 => servers[k].verified = "ok"
        /\ servers[k].pc = "returned" => servers[k].ref \in {"none", "listening"}

\* the ports of the range of a start routine
PortRange(s) == {q \in net \cup {s.port} : s.start <= q /\ q < s.maxPort}

Attempts(kind) == IF kind = "static" THEN StaticAttempts ELSE CallbackAttempts

\* C16: a start routine tries the ports from its starting value (8081 for
\* the static server, 8082 for the callback server when the setting is 0)
\* upwards one at a time, at most 50 respectively 1000 of them, and binds
\* the lowest free one; when none of them is free it returns normally with
\* a notice.
C16_LowestPortBounded ==
    \A k \in DOMAIN servers :
        LET s == servers[k]
        IN  /\ s.start \in {IF s.kind = "static" THEN 8081 ELSE 8082} \cup (PortSettings \ {0})
            /\ s.tried <= Attempts(s.kind)
            /\ s.port = s.start + (IF s.pc = "binding" \/ s.started THEN s.tried - 1
                                   ELSE s.tried)
            /\ s.pc = "binding" => s.port < s.maxPort
            /\ s.started =>
                  /\ s.port \in net /\ s.published = s.port
                  /\ \A q \in PortRange(s) : q \in net => s.port <= q
            /\ (s.pc = "returned" /\ ~s.started) =>
                  /\ s.notice = "no open port"
                  /\ PortRange(s) \cap net = {}
                  /\ s.tried = Attempts(s.kind)
            /\ (s.pc = "returned" /\ s.started) => s.notice = "none"

\* the callback server found none of its 1000 ports free, the port just
\* past the range being free
C16_Witness ==
    \E k \in DOMAIN servers :
        /\ servers[k].kind = "callback" /\ servers[k].pc = "returned"
        /\ ~servers[k].started /\ servers[k].tried = 1000
        /\ servers[k].maxPort \in net

\* the view holds no webview: it was unloaded and not loaded again
Closed(v) == views[v].webview = 0 /\ views[v].inDom = 0

\* a listener of the webview of task t ran in this step
ListenerStep(t) ==
    \/ tasks'[t].loaded # tasks[t].loaded
    \/ /\ tasks' = tasks
       /\ views'[tasks[t].view].isDirty # views[tasks[t].view].isDirty
       /\ views[tasks[t].view].webview = t

RECURSIVE SmallestFree(_, _, _, _)
SmallestFree(base, i, ext, files) ==
    IF Candidate(base, i, ext) \in files THEN SmallestFree(base, i + 1, ext, files) ELSE i

\* the prompted name is usable as typed: nothing to strip, no extension yet
PlainName(n) ==
    /\ n.prompted /\ n.name # <<>> /\ Sanitize(n.name) = n.name
    /\ ~EndsWithDotExt(n.name, n.ext)

\* C18: openNewDocument with a prompted name N and type T creates N.T if it
\* does not exist, otherwise 'N (i).T' for the smallest i >= 1 that does not
\* exist; it never creates over an existing file.
C18_NewDocumentName ==
    (naming.routine = "openNewDocument" /\ naming.created /\ PlainName(naming))
        => LET plain == naming.name \o <<".", naming.ext>>
           IN  /\ naming.finalName =
                     IF plain \notin naming.seen THEN plain
                     ELSE Candidate(naming.name,
                                    SmallestFree(naming.name, 1, naming.ext, naming.seen),
                                    naming.ext)
               /\ naming.finalName \notin naming.seen

\* C19: in saveAsDocument with a url a name conflict is never a failure: the
\* user is re-prompted at most once, the name passed to createBinary does
\* not exist at that moment, so the file is created beside the existing
\* ones, and 'Save As failed' is only ever the notice of a failed download.
C19_ConflictNeverFails ==
    [][ naming.routine = "saveAsDocument" =>
          /\ vaultNames \subseteq vaultNames'
          /\ naming'.prompts <= 2
          /\ naming'.finalName # naming.finalName =>
                /\ naming'.finalName \notin vaultNames
                /\ naming'.created
                /\ vaultNames' = vaultNames \cup {naming'.finalName}
          /\ (naming'.notice = "Save As failed" /\ naming.notice = "none")
                => (naming.pc = "download" /\ naming'.finalName = <<>>) ]_vars

\* every name up to 'D (2).docx' and the re-prompted name being taken, the
\* file was created under the next suffix
C19_Witness ==
    /\ naming.routine = "saveAsDocument" /\ naming.created /\ naming.attempt = 1
    /\ naming.finalName = Candidate(<<"D">>, MaxConflicts + 1, "docx")
    /\ SaveAsFiles \subseteq vaultNames

(***************************************************************************)
(* Properties of the static server's failures                              *)
(***************************************************************************)
\* the path part of the request, before decoding
RawPath == LET first == Head(SplitOn(httpReq.url, "?"))
           IN  IF first = <<>> THEN <<"/">> ELSE first

\* the request is for none of the fixed routes and names no regular file
MissingFile ==
    /\ httpReq.method # "OPTIONS" /\ ~DecodeThrows(RawPath)
    /\ LET reqPath == decodeURIComponent(RawPath)
           rel == StripLeadingSlash(reqPath)
       IN  /\ reqPath \notin {<<"/">>, <<"/", "editor.html">>, <<"/", "embedded-editor.html">>,
                              <<"/", "api", "/", "createNew">>, <<"/", "api", "/", "saveAs">>}
           /\ ~IsRegularFile(fsFiles, rel, PathJoin(vaultPath, rel))
           /\ ~IsRegularFile(fsFiles, rel, PathJoin(resolvedPluginPath, rel))

\* C20: a request for a missing file is answered 404 with a text body, a
\* request whose path cannot be decoded 500, and whatever fails while a
\* request is served ends in a 500 response, never in an unhandled error.
C20_FailuresAnswered ==
    httpRes.kind # "none" =>
        /\ MissingFile => httpRes = Response(404, "text", <<>>)
        /\ (httpReq.method # "OPTIONS" /\ DecodeThrows(RawPath))
              => httpRes = Response(500, "text", <<>>)
        /\ httpRes.kind # "aborted"

(***************************************************************************)
(* Properties of the static server's lookup order                          *)
(***************************************************************************)
\* the request is handled by the final branch of the handler: it is not a
\* preflight, its path decodes, and it is none of the five fixed routes
OtherPath ==
    /\ httpReq.method # "OPTIONS" /\ ~DecodeThrows(RawPath)
    /\ decodeURIComponent(RawPath) \notin
          {<<"/">>, <<"/", "editor.html">>, <<"/", "embedded-editor.html">>,
           <<"/", "api", "/", "createNew">>, <<"/", "api", "/", "saveAs">>}

\* path.join(root, reqPath.replace(/^\//, '')) for the request at hand
Under(root) == PathJoin(root, StripLeadingSlash(decodeURIComponent(RawPath)))

\* a regular file exists at the request's path under the root
ExistsUnder(root) ==
    IsRegularFile(fsFiles, StripLeadingSlash(decodeURIComponent(RawPath)), Under(root))

\* C21: a request for a path other than the five fixed routes is looked up
\* under the vault root first and under the plugin root only when no regular
\* file exists in the vault: a file in both roots is served from the vault,
\* a file only in the plugin root from there, and a file in neither gives 404.
C21_VaultBeforePlugin ==
    (OtherPath /\ httpRes.kind # "none") =>
        IF ExistsUnder(vaultPath)
          THEN httpRes.status = 200 /\ httpRes.file = Under(vaultPath)
        ELSE IF ExistsUnder(resolvedPluginPath)
          THEN httpRes.status = 200 /\ httpRes.file = Under(resolvedPluginPath)
        ELSE httpRes.status = 404

\* the file exists in both roots, under different paths, and the vault's copy
\* has been sent
C21_Witness ==
    /\ OtherPath
    /\ ExistsUnder(vaultPath) /\ ExistsUnder(resolvedPluginPath)
    /\ Under(vaultPath) # Under(resolvedPluginPath)
    /\ httpRes = Response(200, "sent", Under(vaultPath))

(***************************************************************************)
(* Properties of the key registry's writers                                *)
(***************************************************************************)
\* the step in which an open generates its key and registers it
RegisterStep ==
    \E t \in DOMAIN tasks :
        /\ tasks[t].pc = "pollFile" /\ tasks'[t].pc # "pollFile"
        /\ keyFileMap' = Register(keyFileMap, tasks'[t].key, tasks[t].path)

\* C22: the registry is written only by the open path: a callback request of
\* any status, key, url and body leaves it as it was, and so do the unload
\* and the close of a view and the handling of save-as and create-new.
C22_OnlyOpenWrites ==
    [][(keyFileMap' # keyFileMap) => RegisterStep]_vars

\* with a key registered, the view was unloaded, a callback for that key
\* overwrote the file, and a save-as event and an API request were handled
C22_Witness ==
    /\ Registered(keyFileMap, SessionKey)
    /\ views["v1"].webview = 0 /\ \E t \in DOMAIN tasks : tasks[t].key = SessionKey
    /\ cbLog.step = "written" /\ overwrites[PathA] > 0
    /\ hostAction.did.op = "promptThenDownloadAs"
    /\ httpRes.kind = "page"

(***************************************************************************)
(* Properties of the request token on the URLs                             *)
(***************************************************************************)
\* the URL has a query string
HasQuery(u) == \E i \in 1..Len(u) : u[i] = "?"

\* the URL with a 'token' query parameter joined to it
WithTokenParam(u, token) ==
    u \o <<IF HasQuery(u) THEN "&" ELSE "?", "token=">> \o token

\* the four URLs of a config, in the order document, callback, create, save-as
FourUrls(cfg) ==
    <<cfg.document.url, cfg.editorConfig.callbackUrl, cfg.editorConfig.createUrl,
      cfg.editorConfig.saveAsUrl>>

\* the open has got past the request-token stage without failing
PastRequestToken(t) == tasks[t].pc \in {"signCfg", "ready", "delivered"}

\* the four URLs of the open's config are those built from the file, each
\* with one and the same token parameter joined to it
TokenOnAllFour(t) ==
    LET built == FourUrls(BaseConfig(tasks[t].path, tasks[t].key))
        now == FourUrls(tasks[t].baseConfig)
        token == encodeURIComponent(RequestToken(tasks[t].key))
    IN  \A i \in 1..4 : now[i] = WithTokenParam(built[i], token)

\* the four URLs of the open's config are as they were built
UrlsUnchanged(t) ==
    FourUrls(tasks[t].baseConfig) = FourUrls(BaseConfig(tasks[t].path, tasks[t].key))

\* C23 as stated: with a non-empty secret and request-token appending not
\* disabled, one and the same token is appended as a 'token' query parameter
\* to the document, callback, create and save-as URLs, joined with '&' to a
\* URL that has a query string and with '?' otherwise; with appending disabled
\* or an empty secret none of the four URLs is changed.
C23_TokenOnFourUrls ==
    \A t \in DOMAIN tasks : PastRequestToken(t) =>
        IF settings.jwtSecret # <<>> /\ settings.useRequestToken
        THEN TokenOnAllFour(t) ELSE UrlsUnchanged(t)

\* C23 amended: the token is appended when the secret is not blank (not empty
\* once trimmed) and appending is not disabled; with appending disabled or a
\* blank secret none of the four URLs is changed.
C23_TokenOnFourUrlsUnlessBlank ==
    \A t \in DOMAIN tasks : PastRequestToken(t) =>
        IF SecretConfigured(settings) /\ settings.useRequestToken
        THEN TokenOnAllFour(t) ELSE UrlsUnchanged(t)

\* an open with secret and appending on whose create URL got the token after
\* '&' and whose document URL after '?'
C23_Witness ==
    \E t \in DOMAIN tasks :
        /\ tasks[t].pc = "ready" /\ SecretConfigured(settings) /\ settings.useRequestToken
        /\ HasQuery(CreateUrl(DocumentType(Extension(tasks[t].path))))
        /\ ~HasQuery(DockerFileUrl(tasks[t].path))
        /\ TokenOnAllFour(t)

(***************************************************************************)
(* Properties of the readiness polls                                       *)
(***************************************************************************)
\* the failed HEAD attempts of the open's polls so far
FailedAttempts(t, poll) ==
    (IF poll = "page" THEN PollsOf(t).page ELSE PollsOf(t).file) \div checkInterval

\* the open was abandoned by a poll that ran out
PollAborted(t) ==
    tasks[t].pc = "failed" /\ PollsOf(t).notice # ""

\* C24: each readiness poll ends after at most maxWait/checkInterval = 20
\* failed HEAD attempts; an open whose poll ran out is abandoned with a notice
\* and the error panel, and for it no key is registered, no config built and
\* no webview created.
C24_PollsBounded ==
    \A t \in DOMAIN tasks :
        /\ \A poll \in {"page", "file"} : FailedAttempts(t, poll) <= 20
        /\ tasks[t].pc = "pollPage" => FailedAttempts(t, "page") < 20
        /\ tasks[t].pc = "pollFile" => FailedAttempts(t, "file") < 20
        /\ (FailedAttempts(t, "page") = 20 \/ FailedAttempts(t, "file") = 20)
              => PollAborted(t)
        /\ PollAborted(t) =>
              /\ tasks[t].error \in {"Could not connect to the local server",
                                     "File could not be accessed by the server"}
              /\ tasks[t].key = <<>> /\ tasks[t].baseConfig = <<>> /\ tasks[t].config = <<>>
              /\ views[tasks[t].view].webview # t /\ views[tasks[t].view].inDom # t
        /\ Cardinality(DOMAIN keyFileMap)
              <= Cardinality({u \in DOMAIN tasks : tasks[u].key # <<>>})

\* an open whose page poll succeeded after failures and whose file poll ran
\* out on its twentieth failure
C24_Witness ==
    \E t \in DOMAIN tasks :
        /\ PollAborted(t)
        /\ FailedAttempts(t, "page") = 3 /\ FailedAttempts(t, "file") = 20
        /\ keyFileMap = <<>>

(***************************************************************************)
(* Properties of concurrent saves                                          *)
(***************************************************************************)
\* C25: when save callbacks for one key are in flight together, the file ends
\* up with the bytes of the callback that arrived last, whatever the order in
\* which the downloads finish: once no callback is in flight the file holds
\* the bytes behind the url of the last request received.
C25_LastArrivalWins ==
    (inflight = EmptyBag /\ cbReq # NoRequest)
        => vault[PathA].data = UrlBytes(cbReq.body.url.doc)

(***************************************************************************)
(* Properties of an unloaded view                                          *)
(***************************************************************************)
\* onLoadFile has not been invoked on the view since its last unload
NoLoadSinceUnload(v) ==
    /\ v \in DOMAIN unloads
    /\ \A t \in DOMAIN tasks : tasks[t].view = v => t <= unloads[v]

\* C26: once onUnloadFile has run, the view holds no webview (the field is
\* null and no webview is attached to its content) until onLoadFile is
\* invoked again, also when an earlier onLoadFile was still suspended in its
\* polls or in signing when the view was unloaded.
C26_NoWebviewAfterUnload ==
    \A v \in DOMAIN views :
        NoLoadSinceUnload(v) => (views[v].webview = 0 /\ views[v].inDom = 0)

(***************************************************************************)
(* Properties of the save-as fallback guard                                *)
(***************************************************************************)
\* C27: with system save-as on, a view has at most one run of
\* fallbackSystemSaveAsFromVault in flight, for every interleaving of save-as
\* events with and without a url.
C27_OneFallbackAtATime ==
    \A v \in Views : fallback[v].running <= 1

(***************************************************************************)
(* Properties of failed downloads                                          *)
(***************************************************************************)
\* the step in which the handler of callback c ends
HandlerEnds(c) == c \in BagToSet(inflight) /\ sent' # <<>> /\ inflight' = Resume(inflight, c)

\* the download of callback c threw, or ended with a status other than 200
DownloadFailed(c) == c.pc = "download" /\ cbLog'.step = "downloaded"

\* the download of callback c brought no bytes
NoBytes(c) == UrlBytes(c.url.doc) = ""

\* C28: when the download of a save callback with a resolvable key throws,
\* returns a status other than 200, or returns no bytes, the file is left as
\* it was and the callback is still acknowledged with error 0.
C28_FailedDownloadKeepsFile ==
    [][\A c \in BagToSet(inflight) :
          (HandlerEnds(c) /\ (DownloadFailed(c) \/ NoBytes(c)))
              => (vault' = vault /\ sent' = <<Ack>>)]_vars

(***************************************************************************)
(* Properties of the acknowledgement's order                               *)
(***************************************************************************)
\* the step in which the download of callback c has brought its bytes and the
\* handler goes on to write them
WriteStarts(c) ==
    /\ c.pc = "download"
    /\ inflight' = Suspend(Resume(inflight, c), Suspended(c.path, c.url, "write"))

\* C29: a save callback that leads to an overwrite is acknowledged only after
\* the overwrite has completed: nothing is sent when the write is started,
\* and the step that sends the acknowledgement of a saved document finds the
\* file holding the downloaded bytes.
C29_AckAfterWrite ==
    [][\A c \in BagToSet(inflight) :
          /\ WriteStarts(c) => sent' = <<>>
          /\ (WriteDone(c) /\ sent' = <<Ack>>)
                => vault'[c.path].data = UrlBytes(c.url.doc)]_vars

\* a callback was acknowledged after its write replaced the file's bytes with
\* those of a later version
C29_Witness ==
    /\ cbLog = Log("written", "Document saved successfully") /\ sent = <<Ack>>
    /\ vault[PathA].data = "B2" /\ overwrites[PathA] = 1

(***************************************************************************)
(* Properties of abandoned creations                                       *)
(***************************************************************************)
\* openNewDocument has returned
NewDocumentReturned == naming.routine = "openNewDocument" /\ naming.pc = "returned"

\* the prompt was cancelled, the sanitized name is empty, or no template was
\* found for a spreadsheet or a presentation
Abandoned(n) ==
    \/ n.prompted /\ n.cancelled
    \/ n.prompted /\ Sanitize(n.name) = <<>>
    \/ ~n.templateFound /\ n.ext \in {"xlsx", "pptx"}

\* C30: when the prompt of openNewDocument is cancelled, the sanitized name is
\* empty, or there is no template for xlsx or pptx, no file is created and no
\* view is opened; without a template a file is created for docx only, from
\* the embedded minimal document.
C30_AbandonedCreatesNothing ==
    [][(naming'.routine = "openNewDocument" /\ naming'.pc = "returned"
            /\ naming.pc # "returned") =>
          /\ Abandoned(naming') =>
                /\ vaultNames' = vaultNames
                /\ ~naming'.created /\ ~naming'.opened /\ naming'.finalName = <<>>
                /\ naming'.notice \in {"Creation cancelled", "Invalid name",
                                       "No template found"}
          /\ (naming'.created /\ ~naming'.templateFound) => naming'.ext = "docx"]_vars

\* a spreadsheet was asked for under a usable name, no template was found,
\* and the routine returned with its notice and without a file
C30_Witness ==
    /\ NewDocumentReturned
    /\ naming.prompted /\ ~naming.cancelled /\ Sanitize(naming.name) # <<>>
    /\ naming.ext = "xlsx" /\ ~naming.templateFound
    /\ naming.notice = "No template found" /\ ~naming.created /\ ~naming.opened

====
